---- MODULE Spec2Model ----
(***************************************************************************)
(* WittyWisterias: a chat whose whole state (key maps and message log) is  *)
(* one blob stored as an image at a public image host.  The model covers   *)
(* the message protocol of backend/backend.py (fetch, mutate, publish),    *)
(* the store of backend/database.py, the signing and sealing of            *)
(* backend/cryptography.py, the wire format of backend/message_format.py   *)
(* and the polling client of frontend/states/chat_state.py.                *)
(***************************************************************************)
EXTENDS Integers, Sequences, FiniteSets, TLC

VARIABLES
    store,          \* the host's assets of our search tag, in the order they landed
    clock,          \* per caller: the last reading of its UTC clock
    pc,             \* per caller: position of its write call
    op,             \* per caller: the write request in flight
    queried_data,   \* per caller: the encoded string its write call fetched
    queried_at,     \* per caller: history, how many assets had landed when it fetched
    ret,            \* the outcome of the last call whose caller waited for it
    messages,       \* ChatState.messages of the session
    local_storage,  \* the rx.LocalStorage fields of the session
    check,          \* the check_messages tasks of the session, in the order started
    hist,           \* history of the session's sends and merges
    trial           \* a library function called directly: its arguments and its result

backend_vars == <<store, clock, pc, op, queried_data, queried_at, ret>>
session_vars == <<messages, local_storage, check, hist>>
vars == <<store, clock, pc, op, queried_data, queried_at, ret,
          messages, local_storage, check, hist, trial>>

(***************************************************************************)
(* Bounds of the model.                                                    *)
(***************************************************************************)
\* Assets the host comes to hold, and how far a clock reading lies past the last one.
MaxAssets == 3
MaxJump == 1
\* The last clock reading at which the session still sends.
MaxTime == 2
\* How many times the page is loaded in one session.
MaxLoads == 2

(***************************************************************************)
(* Values.                                                                 *)
(***************************************************************************)
Clients == {"c1", "c2"}
Users == {"u1", "u2"}
\* Python's None, and the string "None" that MessageFormat.receiver_id defaults to.
None == "<None>"
NoReceiver == "None"

SigningKeys == {"sk1", "sk2"}
VerifyKeys == {"vk1", "vk2"}
PrivateKeys == {"priv1", "priv2"}
PublicKeys == {"pub1", "pub2"}

\* SigningKey.verify_key and PrivateKey.public_key: the public half of a pair.
VerifyKeyOf(signing_key) == IF signing_key = "sk1" THEN "vk1" ELSE "vk2"
PublicKeyOf(private_key) == IF private_key = "priv1" THEN "pub1" ELSE "pub2"

PUBLIC_TEXT == "PUBLIC_TEXT"
PUBLIC_IMAGE == "PUBLIC_IMAGE"
PRIVATE_TEXT == "PRIVATE_TEXT"
PRIVATE_IMAGE == "PRIVATE_IMAGE"
EventType == {PUBLIC_TEXT, PUBLIC_IMAGE, PRIVATE_TEXT, PRIVATE_IMAGE}

\* A content string: plaintext, a signed blob (k1 the verify key of the signer) or a
\* sealed box (k1 the sender's public key, k2 the recipient's public key).
Plain(text) == [kind |-> "plain", text |-> text, k1 |-> "", k2 |-> ""]
NoContent == Plain("")

Ok(v) == [ok |-> TRUE, val |-> v, err |-> ""]
Raise(e) == [ok |-> FALSE, val |-> NoContent, err |-> e]

(***************************************************************************)
(* backend/cryptography.py                                                 *)
(***************************************************************************)
\* SigningKey(seed) raises nacl's ValueError (a ValueError) on a seed that is not 32 bytes.
sign_message(message, signing_key) ==
    IF signing_key \notin SigningKeys
    THEN Raise("ValueError")
    ELSE Ok([kind |-> "signed", text |-> message.text, k1 |-> VerifyKeyOf(signing_key), k2 |-> ""])

\* verify_message accepting the signature under any verify key.
verify_message_any_key(signed_message, verify_key) ==
    IF verify_key \notin VerifyKeys
    THEN Raise("ValueError")
    ELSE IF signed_message.kind = "signed"
         THEN Ok(Plain(signed_message.text))
         ELSE Raise("ValueError")

\* Every failure leaves as ValueError: binascii.Error and nacl's ValueError are
\* ValueErrors, and BadSignatureError is wrapped.
verify_message(signed_message, verify_key) ==
    IF verify_key \notin VerifyKeys
    THEN Raise("ValueError")
    ELSE IF signed_message.kind = "signed" /\ signed_message.k1 = verify_key
         THEN Ok(Plain(signed_message.text))
         ELSE Raise("ValueError")

encrypt_message(message, sender_private_key, recipient_public_key) ==
    IF sender_private_key \notin PrivateKeys
    THEN Raise("TypeError")
    ELSE IF recipient_public_key \notin PublicKeys
         THEN Raise("ValueError")
         ELSE Ok([kind |-> "box", text |-> message.text,
                  k1 |-> PublicKeyOf(sender_private_key), k2 |-> recipient_public_key])

\* decrypt_message opening the box with any private key.
decrypt_message_any_key(encrypted_message, recipient_private_key, sender_public_key) ==
    IF recipient_private_key \notin PrivateKeys
    THEN Raise("TypeError")
    ELSE IF sender_public_key \notin PublicKeys
         THEN Raise("ValueError")
         ELSE IF encrypted_message.kind = "box"
              THEN Ok(Plain(encrypted_message.text))
              ELSE Raise("ValueError")

\* Box.decrypt raises nacl.exceptions.CryptoError, which is not a ValueError, when
\* the box does not open; decrypt_message lets it through unwrapped.
decrypt_message(encrypted_message, recipient_private_key, sender_public_key) ==
    IF recipient_private_key \notin PrivateKeys
    THEN Raise("TypeError")
    ELSE IF sender_public_key \notin PublicKeys
         THEN Raise("ValueError")
         ELSE IF encrypted_message.kind = "plain"
              THEN Raise("ValueError")
              ELSE IF /\ encrypted_message.kind = "box"
                      /\ {PublicKeyOf(recipient_private_key), sender_public_key}
                           = {encrypted_message.k1, encrypted_message.k2}
                   THEN Ok(Plain(encrypted_message.text))
                   ELSE Raise("CryptoError")

(***************************************************************************)
(* backend/message_format.py                                               *)
(***************************************************************************)
ExtraEventInfo(user_name, user_image) == [user_name |-> user_name, user_image |-> user_image]

\* The dataclass with its defaults.
MessageFormat(sender_id, event_type, content, timestamp) ==
    [sender_id |-> sender_id, event_type |-> event_type, content |-> content,
     timestamp |-> timestamp, sender_username |-> "", sender_profile_image |-> "",
     receiver_id |-> NoReceiver, signing_key |-> "", verify_key |-> "",
     own_public_key |-> "", receiver_public_key |-> "", private_key |-> "",
     extra_event_info |-> ExtraEventInfo(None, None)]

to_json(m) ==
    [header |-> [sender_id |-> m.sender_id, receiver_id |-> m.receiver_id,
                 event_type |-> m.event_type, timestamp |-> m.timestamp,
                 signing_key |-> m.signing_key, verify_key |-> m.verify_key,
                 own_public_key |-> m.own_public_key, private_key |-> m.private_key,
                 receiver_public_key |-> m.receiver_public_key],
     body |-> [content |-> m.content, extra_event_info |-> m.extra_event_info]]

from_json(obj) ==
    [sender_id |-> obj.header.sender_id, event_type |-> obj.header.event_type,
     content |-> obj.body.content, timestamp |-> obj.header.timestamp,
     sender_username |-> "", sender_profile_image |-> "",
     receiver_id |-> obj.header.receiver_id, signing_key |-> obj.header.signing_key,
     verify_key |-> obj.header.verify_key, own_public_key |-> obj.header.own_public_key,
     receiver_public_key |-> obj.header.receiver_public_key,
     private_key |-> obj.header.private_key,
     extra_event_info |-> obj.body.extra_event_info]

(***************************************************************************)
(* backend/backend.py: UploadStack and its codec.  A dict is a function    *)
(* on its keys; the encoded string is a sequence, empty for "".            *)
(***************************************************************************)
EmptyDict == [u \in {} |-> ""]

UploadStack(profile_image_stack, verify_keys_stack, public_keys_stack, message_stack) ==
    [profile_image_stack |-> profile_image_stack, verify_keys_stack |-> verify_keys_stack,
     public_keys_stack |-> public_keys_stack, message_stack |-> message_stack]

EmptyStack == UploadStack(EmptyDict, EmptyDict, EmptyDict, <<>>)

decode(encoded_stack) ==
    IF encoded_stack = <<>>
    THEN EmptyStack
    ELSE LET json_data == encoded_stack[1]
         IN UploadStack(json_data.profile_image_stack, json_data.verify_keys_stack,
                        json_data.public_keys_stack,
                        [i \in 1..Len(json_data.message_stack) |->
                            from_json(json_data.message_stack[i])])

encode(upload_stack) ==
    <<[profile_image_stack |-> upload_stack.profile_image_stack,
       verify_keys_stack |-> upload_stack.verify_keys_stack,
       public_keys_stack |-> upload_stack.public_keys_stack,
       message_stack |-> [i \in 1..Len(upload_stack.message_stack) |->
                            to_json(upload_stack.message_stack[i])]]>>

(***************************************************************************)
(* backend/database.py: the store.  An asset is named by the UTC time read *)
(* when its upload began and carries the encoded string; every asset of    *)
(* the model carries the marker.                                           *)
(***************************************************************************)
\* base and seen are history: the encoded string the publishing write call had
\* fetched, and how many assets had landed when it fetched.
Asset(utc_timestamp, data, base, seen) ==
    [ts |-> utc_timestamp, data |-> data, base |-> base, seen |-> seen, image |-> "marked"]

\* query_data as it would be if the host's listing order, newest upload first, were
\* trusted instead of the file names.
query_data_last_landed(assets) ==
    IF assets = <<>> THEN {<<>>} ELSE {assets[Len(assets)].data}

\* query_data sorting without "reverse=True": the oldest file name comes first.
query_data_oldest_first(assets) ==
    IF assets = <<>>
    THEN {<<>>}
    ELSE {assets[i].data : i \in {j \in 1..Len(assets) :
                                   \A k \in 1..Len(assets) : assets[j].ts <= assets[k].ts}}

\* The candidates query_data may return: it sorts the listed links by the timestamp
\* of the file name, newest first (a stable sort: links of equal timestamp stay in
\* the order of the host's listing, which the client does not control), and returns
\* the first that carries the marker; "" when nothing is listed.
query_data(assets) ==
    IF assets = <<>>
    THEN {<<>>}
    ELSE {assets[i].data : i \in {j \in 1..Len(assets) :
                                   \A k \in 1..Len(assets) : assets[k].ts <= assets[j].ts}}

\* HTTP requests of one query_data: the listing, and the image it returns.
QueryCalls(assets) == IF assets = <<>> THEN 1 ELSE 2
\* HTTP requests of one upload_image: the configuration page and the post.
UploadCalls == 2

(***************************************************************************)
(* backend/backend.py: the protocol.                                       *)
(***************************************************************************)
Truthy(content) == content # NoContent

DictSet(d, k, v) == [x \in DOMAIN d \cup {k} |-> IF x = k THEN v ELSE d[x]]

\* The registration without its membership test.
insert_always(stack, user_id, key) == DictSet(stack, user_id, key)

\* "if user_id not in stack: stack[user_id] = key"
insert_if_absent(stack, user_id, key) ==
    IF user_id \in DOMAIN stack THEN stack ELSE DictSet(stack, user_id, key)

Built(stack) == [ok |-> TRUE, stack |-> stack, err |-> ""]
NotBuilt(e) == [ok |-> FALSE, stack |-> EmptyStack, err |-> e]

\* push_public_keys setting the keys of the user whether registered or not.
push_public_keys_stack_set(queried, user_id, verify_key, public_key) ==
    Built([queried EXCEPT
             !.verify_keys_stack = DictSet(@, user_id, verify_key),
             !.public_keys_stack = DictSet(@, user_id, public_key)])

\* push_public_keys between its query and its upload.
push_public_keys_stack(queried, user_id, verify_key, public_key) ==
    Built([queried EXCEPT
             !.verify_keys_stack = insert_if_absent(@, user_id, verify_key),
             !.public_keys_stack = insert_if_absent(@, user_id, public_key)])

\* The completeness test without the signing key.
send_public_message_unsigned(message) ==
    /\ message.sender_id # ""
    /\ message.event_type # None
    /\ Truthy(message.content)

send_public_message_complete(message) ==
    /\ message.sender_id # ""
    /\ message.event_type # None
    /\ Truthy(message.content)
    /\ message.signing_key # ""

\* The request itself appended, with its content signed.
public_message_of_request(message, signed_message) ==
    [message EXCEPT !.content = signed_message,
                    !.extra_event_info =
                       ExtraEventInfo(message.sender_username, message.sender_profile_image)]

\* The record send_public_message appends: the request's key fields are not copied.
public_message(message, signed_message) ==
    [MessageFormat(message.sender_id, message.event_type, signed_message, message.timestamp)
       EXCEPT !.extra_event_info =
                 ExtraEventInfo(message.sender_username, message.sender_profile_image)]

\* send_public_message between its query and its upload.
send_public_message_stack(queried, message) ==
    LET signed == sign_message(message.content, message.signing_key)
    IN IF ~signed.ok
       THEN NotBuilt(signed.err)
       ELSE Built([queried EXCEPT
                     !.verify_keys_stack =
                         insert_if_absent(@, message.sender_id, message.verify_key),
                     !.message_stack = Append(@, public_message(message, signed.val))])

\* The completeness test without the private key.
send_private_message_keyless(message) ==
    /\ message.sender_id # ""
    /\ message.receiver_id # ""
    /\ message.event_type # None
    /\ Truthy(message.content)
    /\ message.timestamp # 0
    /\ message.own_public_key # ""
    /\ message.receiver_public_key # ""

send_private_message_complete(message) ==
    /\ message.sender_id # ""
    /\ message.receiver_id # ""
    /\ message.event_type # None
    /\ Truthy(message.content)
    /\ message.timestamp # 0
    /\ message.own_public_key # ""
    /\ message.receiver_public_key # ""
    /\ message.private_key # ""

private_message(message, encrypted_message) ==
    [MessageFormat(message.sender_id, message.event_type, encrypted_message, message.timestamp)
       EXCEPT !.receiver_id = message.receiver_id,
              !.extra_event_info =
                 ExtraEventInfo(message.sender_username, message.sender_profile_image)]

\* send_private_message putting its record at the front of the log.
send_private_message_stack_front(queried, message) ==
    LET sealed == encrypt_message(message.content, message.private_key,
                                  message.receiver_public_key)
    IN IF ~sealed.ok
       THEN NotBuilt(sealed.err)
       ELSE Built([queried EXCEPT
                     !.public_keys_stack =
                         insert_if_absent(@, message.sender_id, message.own_public_key),
                     !.message_stack = <<private_message(message, sealed.val)>> \o @])

\* send_private_message between its query and its upload.
send_private_message_stack(queried, message) ==
    LET sealed == encrypt_message(message.content, message.private_key,
                                  message.receiver_public_key)
    IN IF ~sealed.ok
       THEN NotBuilt(sealed.err)
       ELSE Built([queried EXCEPT
                     !.public_keys_stack =
                         insert_if_absent(@, message.sender_id, message.own_public_key),
                     !.message_stack = Append(@, private_message(message, sealed.val))])

\* The loop of read_public_messages over message_stack[i..], appending to verified.
\* The loop leaving every message out.
read_public_loop_skipping(queried, i, verified) == verified

RECURSIVE read_public_loop(_, _, _)
read_public_loop(queried, i, verified) ==
    IF i > Len(queried.message_stack)
    THEN verified
    ELSE LET message == queried.message_stack[i]
         IN IF message.event_type \notin {PUBLIC_TEXT, PUBLIC_IMAGE}
            THEN read_public_loop(queried, i + 1, verified)
            ELSE IF message.sender_id \notin DOMAIN queried.verify_keys_stack
                 THEN read_public_loop(queried, i + 1, verified)
                 ELSE LET v == verify_message(message.content,
                                              queried.verify_keys_stack[message.sender_id])
                      IN IF v.ok
                         THEN read_public_loop(queried, i + 1,
                                  Append(verified, [message EXCEPT !.content = v.val]))
                         ELSE \* except ValueError: pass
                              read_public_loop(queried, i + 1, verified)

\* The loop with a failed verification falling through to the append.
read_public_messages_unverified(queried) ==
    LET listed(m) ==
            /\ m.event_type \in {PUBLIC_TEXT, PUBLIC_IMAGE}
            /\ m.sender_id \in DOMAIN queried.verify_keys_stack
        kept == SelectSeq(queried.message_stack, listed)
    IN [err |-> "",
        msgs |-> [i \in 1..Len(kept) |->
                    LET v == verify_message(kept[i].content,
                                            queried.verify_keys_stack[kept[i].sender_id])
                    IN IF v.ok THEN [kept[i] EXCEPT !.content = v.val] ELSE kept[i]]]

read_public_messages(queried) ==
    [err |-> "", msgs |-> read_public_loop(queried, 1, <<>>)]

\* The loop of read_private_messages; only a ValueError is caught, any other
\* exception ends the call.
RECURSIVE read_private_loop(_, _, _, _, _)
read_private_loop(queried, user_id, private_key, i, decrypted) ==
    IF i > Len(queried.message_stack)
    THEN [err |-> "", msgs |-> decrypted]
    ELSE LET message == queried.message_stack[i]
         IN IF message.event_type \notin {PRIVATE_TEXT, PRIVATE_IMAGE}
            THEN read_private_loop(queried, user_id, private_key, i + 1, decrypted)
            ELSE IF ~(/\ message.receiver_id = user_id
                      /\ message.sender_id \in DOMAIN queried.public_keys_stack)
                 THEN read_private_loop(queried, user_id, private_key, i + 1, decrypted)
                 ELSE LET d == decrypt_message(message.content, private_key,
                                               queried.public_keys_stack[message.sender_id])
                      IN IF d.ok
                         THEN read_private_loop(queried, user_id, private_key, i + 1,
                                  Append(decrypted, [message EXCEPT !.content = d.val]))
                         ELSE IF d.err = "ValueError"
                              THEN read_private_loop(queried, user_id, private_key,
                                                     i + 1, decrypted)
                              ELSE [err |-> d.err, msgs |-> <<>>]

read_private_messages(queried, user_id, private_key) ==
    read_private_loop(queried, user_id, private_key, 1, <<>>)

(***************************************************************************)
(* The requests the callers make.                                          *)
(***************************************************************************)
\* Each concurrent caller holds one signing pair and one encryption pair of its own;
\* the user id it states in a request is its to choose.
SigningKeyOf(c) == IF c = "c1" THEN "sk1" ELSE "sk2"
PrivateKeyOf(c) == IF c = "c1" THEN "priv1" ELSE "priv2"

PublicRequest(s, t, signing_key, verify_key) ==
    [MessageFormat(s, t, Plain("hi"), 1)
       EXCEPT !.signing_key = signing_key, !.verify_key = verify_key,
              !.sender_username = "name"]

PrivateRequest(s, r, t, private_key, receiver_public_key) ==
    [MessageFormat(s, t, Plain("hi"), 1)
       EXCEPT !.receiver_id = r, !.private_key = private_key,
              !.own_public_key = PublicKeyOf(private_key),
              !.receiver_public_key = receiver_public_key, !.sender_username = "name"]

PublicRequests(c) ==
    {PublicRequest(s, PUBLIC_TEXT, SigningKeyOf(c), VerifyKeyOf(SigningKeyOf(c))) :
       s \in Users}

PrivateRequests(c) ==
    {PrivateRequest(s, "u2", PRIVATE_TEXT, PrivateKeyOf(c), "pub2") : s \in Users}

\* The requests the incomplete ones are made of.
PublicBase == PublicRequest("u1", PUBLIC_TEXT, "sk1", "vk1")
PrivateBase == PrivateRequest("u1", "u2", PRIVATE_TEXT, "priv1", "pub2")

\* The request with one field left out (its falsy value).
Without(message, f) ==
    CASE f = "sender_id" -> [message EXCEPT !.sender_id = ""]
      [] f = "receiver_id" -> [message EXCEPT !.receiver_id = ""]
      [] f = "event_type" -> [message EXCEPT !.event_type = None]
      [] f = "content" -> [message EXCEPT !.content = NoContent]
      [] f = "timestamp" -> [message EXCEPT !.timestamp = 0]
      [] f = "signing_key" -> [message EXCEPT !.signing_key = ""]
      [] f = "own_public_key" -> [message EXCEPT !.own_public_key = ""]
      [] f = "receiver_public_key" -> [message EXCEPT !.receiver_public_key = ""]
      [] f = "private_key" -> [message EXCEPT !.private_key = ""]

PublicRequired == {"sender_id", "event_type", "content", "signing_key"}
PrivateRequired == {"sender_id", "receiver_id", "event_type", "content", "timestamp",
                    "own_public_key", "receiver_public_key", "private_key"}

NoMessage == MessageFormat("", None, NoContent, 0)

Request(kind, message, user_id, verify_key, public_key) ==
    [kind |-> kind, message |-> message, user_id |-> user_id,
     verify_key |-> verify_key, public_key |-> public_key]
NoRequest == Request("", NoMessage, "", "", "")

Ret(name, message, user_id, private_key, err, msgs, calls, fetched) ==
    [op |-> name, message |-> message, user_id |-> user_id, private_key |-> private_key,
     err |-> err, msgs |-> msgs, calls |-> calls, fetched |-> fetched]
NoRet == Ret("", NoMessage, "", "", "", <<>>, 0, EmptyStack)

(***************************************************************************)
(* frontend/states/chat_state.py: the state of one ChatState session.      *)
(***************************************************************************)
\* backend/message_format.py: MessageState, the frontend's message.
MessageState(message, user_id, receiver_id, user_name, user_profile_image, own_message, is_image_message, timestamp) ==
    [message |-> message, user_id |-> user_id, receiver_id |-> receiver_id,
     user_name |-> user_name, user_profile_image |-> user_profile_image,
     own_message |-> own_message, is_image_message |-> is_image_message,
     timestamp |-> timestamp]

from_message_format(message_format, user_id) ==
    MessageState(message_format.content, message_format.sender_id,
                 IF message_format.receiver_id # NoReceiver
                 THEN message_format.receiver_id ELSE None,
                 IF message_format.extra_event_info.user_name \notin {None, ""}
                 THEN message_format.extra_event_info.user_name
                 ELSE message_format.sender_id,
                 message_format.extra_event_info.user_image,
                 user_id = message_format.sender_id,
                 message_format.event_type \in {PUBLIC_IMAGE, PRIVATE_IMAGE},
                 message_format.timestamp)

\* MessageState.to_dict and from_dict, through which own private messages are kept
\* in LocalStorage: a text message is stored as it is.
to_dict(m) ==
    [json_message |-> m.message, json_user_id |-> m.user_id,
     json_receiver_id |-> m.receiver_id, json_user_name |-> m.user_name,
     json_user_profile_image |-> m.user_profile_image,
     json_own_message |-> m.own_message, json_is_image_message |-> m.is_image_message,
     json_timestamp |-> m.timestamp]

from_dict(data) ==
    MessageState(data.json_message, data.json_user_id, data.json_receiver_id,
                 data.json_user_name, data.json_user_profile_image,
                 data.json_own_message, data.json_is_image_message, data.json_timestamp)

\* The LocalStorage fields as declared, and as startup_event leaves them.
NoStorage ==
    [user_id |-> "", user_name |-> "", user_profile_image |-> "",
     signing_key |-> "", private_key |-> "",
     verify_keys_storage |-> EmptyDict, public_keys_storage |-> EmptyDict,
     own_private_messages |-> <<>>]

\* A check_messages task: whether it runs ("on", or "dead" after an exception), and
\* how many assets had landed when its last merge ended.  Every "yield
\* ChatState.check_messages" starts one more; none is started at construction.
Check(at, since) == [at |-> at, since |-> since]
NoCheck == <<>>

\* fresh: every send so far took a timestamp that no entry of messages with the own
\* user id carried.  skipped: a merge has left out an entry that was present.
\* batch: one merge has appended private entries of different timestamps.
\* unsorted: one merge has appended a public entry after one of a later timestamp.
\* merged: a merge has ended since messages was constructed.
NoHistory == [fresh |-> TRUE, skipped |-> FALSE, batch |-> FALSE, unsorted |-> FALSE, merged |-> FALSE]

\* No library function has been called directly.
NoTrial == [fn |-> ""]

(***************************************************************************)
(* The write calls: Database.query_data, then the change of the fetched    *)
(* stack and Database.upload_data.  Other calls run between the two.       *)
(***************************************************************************)
\* Everything but trial, as constructed.
Constructed ==
    /\ store = <<>>
    /\ clock = [c \in Clients |-> 0]
    /\ pc = [c \in Clients |-> "idle"]
    /\ op = [c \in Clients |-> NoRequest]
    /\ queried_data = [c \in Clients |-> <<>>]
    /\ queried_at = [c \in Clients |-> 0]
    /\ ret = NoRet
    /\ messages = <<>>
    /\ local_storage = NoStorage
    /\ check = NoCheck
    /\ hist = NoHistory

Init ==
    /\ Constructed
    /\ trial = NoTrial

\* query_data answered: the call holds what it fetched.
Queried(c, request, data) ==
    /\ pc' = [pc EXCEPT ![c] = "queried"]
    /\ op' = [op EXCEPT ![c] = request]
    /\ queried_data' = [queried_data EXCEPT ![c] = data]
    /\ queried_at' = [queried_at EXCEPT ![c] = Len(store)]
    /\ UNCHANGED <<store, clock, ret>>

\* A call returns or raises to the caller that waits for it.  Beside a ChatState
\* session no caller does: its calls run in threads nobody joins, and the remote party
\* is seen by what it stores.
Outcome(r) == ret' = IF check = NoCheck THEN r ELSE NoRet

\* A read call that uploads the stack it fetched before it returns.
Returns_uploading(r) ==
    /\ Outcome(r)
    /\ store' = IF Len(store) < MaxAssets
                THEN Append(store, Asset(clock["c1"] + 1, encode(r.fetched), <<>>, Len(store)))
                ELSE store
    /\ UNCHANGED <<clock, pc, op, queried_data, queried_at>>

\* A read call returns or raises.
Returns(r) ==
    /\ Outcome(r)
    /\ UNCHANGED <<store, clock, pc, op, queried_data, queried_at>>

Idle(c) ==
    /\ pc' = [pc EXCEPT ![c] = "idle"]
    /\ op' = [op EXCEPT ![c] = NoRequest]
    /\ queried_data' = [queried_data EXCEPT ![c] = <<>>]
    /\ queried_at' = [queried_at EXCEPT ![c] = 0]

\* A write call raises before it uploads.
Raises(c, r) ==
    /\ Outcome(r)
    /\ Idle(c)
    /\ UNCHANGED <<store, clock>>

\* query_data without the test of the status code: a listing that failed is read
\* as one with no image of ours, and "" is returned.
Query_unchecked(c, request) ==
    \/ /\ Len(store) + Cardinality({d \in Clients : pc[d] = "queried"}) < MaxAssets
       /\ \E data \in query_data(store) : Queried(c, request, data)
    \/ /\ Len(store) + Cardinality({d \in Clients : pc[d] = "queried"}) < MaxAssets
       /\ Queried(c, request, <<>>)

\* query_data: the listing answers 200 and a candidate is returned, or it does not
\* and InvalidResponseError leaves the call.  No more calls are begun than assets
\* may still land.
Query(c, request) ==
    \/ /\ Len(store) + Cardinality({d \in Clients : pc[d] = "queried"}) < MaxAssets
       /\ \E data \in query_data(store) : Queried(c, request, data)
    \/ Raises(c, Ret(request.kind, NoMessage, "", "", "InvalidResponseError", <<>>, 1,
                     EmptyStack))

\* The write calls up to their query.
push_public_keys(c, user_id, verify_key, public_key) ==
    Query(c, Request("push_public_keys", NoMessage, user_id, verify_key, public_key))

send_public_message(c, message) ==
    IF ~send_public_message_complete(message)
    THEN Raises(c, Ret("send_public_message", message, "", "", "InvalidDataError",
                       <<>>, 0, EmptyStack))
    ELSE Query(c, Request("send_public_message", message, "", "", ""))

send_private_message(c, message) ==
    IF ~send_private_message_complete(message)
    THEN Raises(c, Ret("send_private_message", message, "", "", "InvalidDataError",
                       <<>>, 0, EmptyStack))
    ELSE Query(c, Request("send_private_message", message, "", "", ""))

\* The stack the call uploads.
NewStack(request, queried) ==
    CASE request.kind = "push_public_keys" ->
            push_public_keys_stack(queried, request.user_id, request.verify_key,
                                   request.public_key)
      [] request.kind = "send_public_message" ->
            send_public_message_stack(queried, request.message)
      [] request.kind = "send_private_message" ->
            send_private_message_stack(queried, request.message)

\* The rest of a write call after its query.  upload_image reads the clock for the
\* file name, fetches the configuration page and posts; a non-200 answer to either
\* raises InvalidResponseError and nothing lands.
Upload(c) ==
    /\ pc[c] = "queried"
    /\ LET built == NewStack(op[c], decode(queried_data[c]))
           q == QueryCalls(SubSeq(store, 1, queried_at[c]))
           done(err, calls) == Ret(op[c].kind, NoMessage, "", "", err, <<>>, calls,
                                   EmptyStack)
       IN IF ~built.ok
          THEN /\ Outcome(Ret(op[c].kind, op[c].message, "", "", built.err, <<>>, q,
                           EmptyStack))
               /\ Idle(c)
               /\ UNCHANGED <<store, clock>>
          ELSE \/ /\ Len(store) < MaxAssets
                  /\ \E utc_timestamp \in (clock[c] + 1)..(clock[c] + MaxJump) :
                       /\ clock' = [clock EXCEPT ![c] = utc_timestamp]
                       /\ store' = Append(store, Asset(utc_timestamp, encode(built.stack),
                                                       queried_data[c], queried_at[c]))
                  /\ Outcome(done("", q + UploadCalls))
                  /\ Idle(c)
               \/ /\ \E calls \in 1..UploadCalls :
                        Outcome(done("InvalidResponseError", q + calls))
                  /\ Idle(c)
                  /\ UNCHANGED <<store, clock>>

(***************************************************************************)
(* The read calls: one query each.                                         *)
(***************************************************************************)
ReadFails(name, user_id, private_key) ==
    Returns(Ret(name, NoMessage, user_id, private_key, "InvalidResponseError", <<>>, 1,
                EmptyStack))

read_public_keys_call ==
    \/ \E data \in query_data(store) :
          Returns(Ret("read_public_keys", NoMessage, "", "", "", <<>>, QueryCalls(store),
                      decode(data)))
    \/ ReadFails("read_public_keys", "", "")

read_public_messages_call ==
    \/ \E data \in query_data(store) :
          LET r == read_public_messages(decode(data))
          IN Returns(Ret("read_public_messages", NoMessage, "", "", r.err, r.msgs,
                         QueryCalls(store), decode(data)))
    \/ ReadFails("read_public_messages", "", "")

read_private_messages_call(user_id, private_key) ==
    \/ \E data \in query_data(store) :
          LET r == read_private_messages(decode(data), user_id, private_key)
          IN Returns(Ret("read_private_messages", NoMessage, user_id, private_key, r.err,
                         r.msgs, QueryCalls(store), decode(data)))
    \/ ReadFails("read_private_messages", user_id, private_key)

(***************************************************************************)
(* Spec: two callers whose write calls overlap.                            *)
(***************************************************************************)
Next ==
    \/ /\ \E c \in Clients, u \in Users :
             /\ pc[c] = "idle"
             /\ push_public_keys(c, u, VerifyKeyOf(SigningKeyOf(c)),
                                 PublicKeyOf(PrivateKeyOf(c)))
       /\ UNCHANGED <<session_vars, trial>>
    \/ /\ \E c \in Clients : \E m \in PublicRequests(c) :
             pc[c] = "idle" /\ send_public_message(c, m)
       /\ UNCHANGED <<session_vars, trial>>
    \/ /\ \E c \in Clients : \E m \in PrivateRequests(c) :
             pc[c] = "idle" /\ send_private_message(c, m)
       /\ UNCHANGED <<session_vars, trial>>
    \/ /\ \E c \in Clients : Upload(c)
       /\ UNCHANGED <<session_vars, trial>>

Spec == Init /\ [][Next]_vars

(***************************************************************************)
(* SpecApi: one caller, with any keys, making every call of the backend,    *)
(* one call after the other.                                               *)
(***************************************************************************)
\* Public sends of u1 with either key pair, and one of u2 that states no verify key.
ApiPublicRequests ==
    {PublicRequest("u1", PUBLIC_TEXT, sk, VerifyKeyOf(sk)) : sk \in SigningKeys}
    \cup {PublicRequest("u1", PUBLIC_IMAGE, "sk1", "vk1"),
          PublicRequest("u2", PUBLIC_TEXT, "sk2", "")}

\* Private sends of u1 to either user, sealed to pub2, and one with the other key pair.
ApiPrivateRequests ==
    {PrivateRequest("u1", "u1", PRIVATE_TEXT, "priv1", "pub2"),
     PrivateRequest("u1", "u2", PRIVATE_IMAGE, "priv1", "pub2"),
     PrivateRequest("u1", "u2", PRIVATE_TEXT, "priv2", "pub2")}

ApiKeyRequests ==
    {Request("push_public_keys", NoMessage, "u1", "vk2", "pub2"),
     Request("push_public_keys", NoMessage, "u2", "vk1", "pub1")}

NextApi ==
    \/ /\ pc["c1"] = "idle"
       /\ \E k \in ApiKeyRequests :
             push_public_keys("c1", k.user_id, k.verify_key, k.public_key)
       /\ UNCHANGED <<session_vars, trial>>
    \/ /\ pc["c1"] = "idle"
       /\ \E m \in ApiPublicRequests : send_public_message("c1", m)
       /\ UNCHANGED <<session_vars, trial>>
    \/ /\ pc["c1"] = "idle"
       /\ \E f \in PublicRequired : send_public_message("c1", Without(PublicBase, f))
       /\ UNCHANGED <<session_vars, trial>>
    \/ /\ pc["c1"] = "idle"
       /\ \E m \in ApiPrivateRequests : send_private_message("c1", m)
       /\ UNCHANGED <<session_vars, trial>>
    \/ /\ pc["c1"] = "idle"
       /\ \E f \in PrivateRequired : send_private_message("c1", Without(PrivateBase, f))
       /\ UNCHANGED <<session_vars, trial>>
    \/ /\ Upload("c1")
       /\ UNCHANGED <<session_vars, trial>>
    \/ /\ pc["c1"] = "idle"
       /\ read_public_keys_call
       /\ UNCHANGED <<session_vars, trial>>
    \/ /\ pc["c1"] = "idle"
       /\ read_public_messages_call
       /\ UNCHANGED <<session_vars, trial>>
    \/ /\ pc["c1"] = "idle"
       /\ \E u \in Users, priv \in PrivateKeys : read_private_messages_call(u, priv)
       /\ UNCHANGED <<session_vars, trial>>

SpecApi == Init /\ [][NextApi]_vars

(***************************************************************************)
(* SpecClient: one ChatState session (whose backend calls are caller c1's) *)
(* and a remote party (caller c2) that calls the backend directly.         *)
(***************************************************************************)
\* ChatState.add_key_storage
add_key_storage(storage, user_id, key) == DictSet(storage, user_id, key)

\* startup_event holds the state while its push_public_keys call runs.
Locked == op["c1"].kind = "push_public_keys"

\* Cryptographer.generate_signing_key_pair and generate_encryption_key_pair: a random
\* pair, which is never the pair held.  The first pair is the session's.
generate_signing_key_pair(held) == IF held = SigningKeyOf("c1") THEN "sk2" ELSE SigningKeyOf("c1")
generate_encryption_key_pair(held) == IF held = PrivateKeyOf("c1") THEN "priv2" ELSE PrivateKeyOf("c1")

\* "if not self.signing_key or self.user_id not in self.get_key_storage(...)"
lacks_signing_key_always(storage, user_id) == TRUE

lacks_signing_key(storage, user_id) ==
    storage.signing_key = "" \/ user_id \notin DOMAIN storage.verify_keys_storage

lacks_private_key(storage, user_id) ==
    storage.private_key = "" \/ user_id \notin DOMAIN storage.public_keys_storage

\* startup_event, up to the query of its push_public_keys: it starts one more
\* check_messages task, sets what LocalStorage lacks (the user id generated is u1)
\* and pushes the keys.
startup_event ==
    /\ Len(check) < MaxLoads
    /\ pc["c1"] = "idle"
    /\ check' = Append(check, Check("on", Len(store)))
    /\ LET user_id == IF local_storage.user_id = "" THEN "u1" ELSE local_storage.user_id
           new_signing == lacks_signing_key(local_storage, user_id)
           new_private == lacks_private_key(local_storage, user_id)
           signing_key == IF new_signing
                          THEN generate_signing_key_pair(local_storage.signing_key)
                          ELSE local_storage.signing_key
           private_key == IF new_private
                          THEN generate_encryption_key_pair(local_storage.private_key)
                          ELSE local_storage.private_key
           verify_keys == IF new_signing
                          THEN add_key_storage(local_storage.verify_keys_storage,
                                               user_id, VerifyKeyOf(signing_key))
                          ELSE local_storage.verify_keys_storage
           public_keys == IF new_private
                          THEN add_key_storage(local_storage.public_keys_storage,
                                               user_id, PublicKeyOf(private_key))
                          ELSE local_storage.public_keys_storage
       IN /\ local_storage' =
                [local_storage EXCEPT
                   !.user_id = user_id,
                   !.signing_key = signing_key,
                   !.private_key = private_key,
                   !.verify_keys_storage = verify_keys,
                   !.public_keys_storage = public_keys]
          /\ push_public_keys("c1", user_id, verify_keys[user_id], public_keys[user_id])
    /\ UNCHANGED <<messages, hist, trial>>

\* The page is loaded for the first time in the session.
first_load ==
    /\ check = NoCheck
    /\ startup_event

\* The comparison of check_messages: an entry of that timestamp and user is present.
message_exists_foreign(messages_, timestamp, user_id) ==
    \E j \in 1..Len(messages_) :
       /\ messages_[j].timestamp = timestamp
       /\ messages_[j].user_id = user_id
       /\ ~messages_[j].own_message

message_exists(messages_, timestamp, user_id) ==
    \E j \in 1..Len(messages_) :
       messages_[j].timestamp = timestamp /\ messages_[j].user_id = user_id

\* A send handler that keeps no copy of its own: the backend call is started and the
\* message is left to be fetched.
Sends_without_copy(chat_message, request, own_private_messages) ==
    /\ local_storage.user_id # ""
    /\ ~Locked
    /\ pc["c1"] = "idle"
    /\ clock["c1"] < MaxTime
    /\ clock' = [clock EXCEPT !["c1"] = chat_message.timestamp]
    /\ pc' = [pc EXCEPT !["c1"] = "started"]
    /\ op' = [op EXCEPT !["c1"] = request]
    /\ UNCHANGED <<messages, local_storage, hist>>
    /\ UNCHANGED <<store, queried_data, queried_at, ret, check, trial>>

\* A send handler: the clock is read, the message is appended to messages (and, a
\* private one, to own_private_messages) and the backend call is started in a thread.
Sends(chat_message, request, own_private_messages) ==
    /\ local_storage.user_id # ""
    /\ ~Locked
    /\ pc["c1"] = "idle"
    /\ clock["c1"] < MaxTime
    /\ clock' = [clock EXCEPT !["c1"] = chat_message.timestamp]
    /\ messages' = Append(messages, chat_message)
    /\ local_storage' = [local_storage EXCEPT !.own_private_messages = own_private_messages]
    /\ hist' = [hist EXCEPT
                  !.fresh = @ /\ \A j \in 1..Len(messages) :
                                      \/ messages[j].timestamp # chat_message.timestamp
                                      \/ messages[j].user_id # chat_message.user_id]
    /\ pc' = [pc EXCEPT !["c1"] = "started"]
    /\ op' = [op EXCEPT !["c1"] = request]
    /\ UNCHANGED <<store, queried_data, queried_at, ret, check, trial>>

send_public_text ==
    \E message_timestamp \in (clock["c1"] + 1)..(clock["c1"] + MaxJump) :
       Sends(MessageState(Plain("hi"), local_storage.user_id, None, local_storage.user_name,
                          local_storage.user_profile_image, TRUE, FALSE, message_timestamp),
             Request("send_public_message",
                     [MessageFormat(local_storage.user_id, PUBLIC_TEXT, Plain("hi"),
                                    message_timestamp)
                        EXCEPT !.signing_key = local_storage.signing_key,
                               !.verify_key =
                                   local_storage.verify_keys_storage[local_storage.user_id],
                               !.sender_username = local_storage.user_name,
                               !.sender_profile_image = local_storage.user_profile_image],
                     "", "", ""),
             local_storage.own_private_messages)

send_private_text(receiver_id) ==
    /\ receiver_id \in DOMAIN local_storage.public_keys_storage
    /\ \E message_timestamp \in (clock["c1"] + 1)..(clock["c1"] + MaxJump) :
          LET chat_message ==
                  MessageState(Plain("hi"), local_storage.user_id, receiver_id,
                               local_storage.user_name, local_storage.user_profile_image,
                               TRUE, FALSE, message_timestamp)
          IN Sends(chat_message,
                   Request("send_private_message",
                           [MessageFormat(local_storage.user_id, PRIVATE_TEXT, Plain("hi"),
                                          message_timestamp)
                              EXCEPT !.receiver_id = receiver_id,
                                     !.own_public_key =
                                         local_storage.public_keys_storage[local_storage.user_id],
                                     !.receiver_public_key =
                                         local_storage.public_keys_storage[receiver_id],
                                     !.private_key = local_storage.private_key,
                                     !.sender_username = local_storage.user_name,
                                     !.sender_profile_image =
                                         local_storage.user_profile_image],
                           "", "", ""),
                   Append(local_storage.own_private_messages, to_dict(chat_message)))

\* The thread a send handler started runs the backend call up to its query.
thread_run ==
    /\ pc["c1"] = "started"
    /\ IF op["c1"].kind = "send_public_message"
       THEN send_public_message("c1", op["c1"].message)
       ELSE send_private_message("c1", op["c1"].message)
    /\ UNCHANGED <<session_vars, trial>>

\* What the remote party sends: public messages as u2 and under the session's user
\* id, and a private message to the session's user.
RemoteRequests ==
    {PublicRequest("u2", PUBLIC_TEXT, "sk2", "vk2"),
     [PublicRequest("u1", PUBLIC_TEXT, "sk2", "vk2") EXCEPT !.timestamp = 2],
     PrivateRequest("u2", "u1", PRIVATE_TEXT, "priv2", "pub1")}

remote_send ==
    /\ pc["c2"] = "idle"
    /\ \E m \in RemoteRequests :
          IF m.event_type = PUBLIC_TEXT
          THEN send_public_message("c2", m)
          ELSE send_private_message("c2", m)
    /\ UNCHANGED <<session_vars, trial>>

\* A backend call runs on after its query.  When it is the push_public_keys of
\* startup_event, the handler ends and check_messages may enter the state from then on.
backend_runs(c) ==
    /\ Upload(c)
    /\ check' = IF c = "c1" /\ Locked
                 THEN [check EXCEPT ![Len(check)] = Check(@.at, Len(store'))]
                 ELSE check
    /\ UNCHANGED <<messages, local_storage, hist, trial>>

backend_run == \E c \in Clients : backend_runs(c)

\* The loop inserting at the front: "self.messages.insert(0, message)".
RECURSIVE append_new_front(_, _, _)
append_new_front(messages_, incoming, i) ==
    IF i > Len(incoming)
    THEN messages_
    ELSE append_new_front(IF \E j \in DOMAIN messages_ :
                                  /\ messages_[j].timestamp = incoming[i].timestamp
                                  /\ messages_[j].user_id = incoming[i].user_id
                          THEN messages_
                          ELSE <<incoming[i]>> \o messages_,
                          incoming, i + 1)

\* The loop without its test.
append_new_always(messages_, incoming, i) == messages_ \o SubSeq(incoming, i, Len(incoming))

\* "for message in ...: if not message_exists: self.messages.append(message)"
RECURSIVE append_new(_, _, _)
append_new(messages_, incoming, i) ==
    IF i > Len(incoming)
    THEN messages_
    ELSE append_new(IF message_exists(messages_, incoming[i].timestamp, incoming[i].user_id)
                    THEN messages_
                    ELSE Append(messages_, incoming[i]),
                    incoming, i + 1)

\* The two lists as they were concatenated.
sorted_by_timestamp_not(list) == list

\* sorted(..., key=lambda msg: msg.timestamp): a stable sort.
RECURSIVE sorted_by_timestamp(_)
sorted_by_timestamp(list) ==
    IF list = <<>>
    THEN <<>>
    ELSE LET front == sorted_by_timestamp(SubSeq(list, 1, Len(list) - 1))
             last == list[Len(list)]
             k == Cardinality({i \in 1..Len(front) : front[i].timestamp <= last.timestamp})
         IN SubSeq(front, 1, k) \o <<last>> \o SubSeq(front, k + 1, Len(front))

\* The key storage after add_key_storage of every key read.
merged_keys(storage, read) ==
    [u \in DOMAIN storage \cup DOMAIN read |-> IF u \in DOMAIN read THEN read[u] ELSE storage[u]]

\* What Database.query_data returned when n assets had landed.
queried_when(n) == query_data(SubSeq(store, 1, n))

\* The history after a merge that made messages of its first n entries, having
\* fetched so many entries.
merge_history(merged, n, fetched) ==
    LET added == SubSeq(merged, n + 1, Len(merged))
        private == {i \in DOMAIN added : added[i].receiver_id # None}
    IN [hist EXCEPT
          !.merged = TRUE,
          !.skipped = @ \/ Len(merged) < n + fetched,
          !.batch = @ \/ \E i, j \in private : added[i].timestamp # added[j].timestamp,
          !.unsorted = @ \/ \E i, j \in DOMAIN added \ private :
                                 i < j /\ added[i].timestamp > added[j].timestamp]

\* One round of check_messages: its three reads, each of the store as it was at some
\* time since the last round (in the order of the reads), and the merge under
\* "async with self"; then the sleep.  Each local of the round is a value bound in a
\* set of one element.
check_messages(task) ==
    /\ check[task].at = "on"
    /\ ~Locked
    /\ \E n1, n2, n3 \in check[task].since..Len(store) :
          /\ n1 <= n2 /\ n2 <= n3
          /\ \E d1 \in queried_when(n1), d2 \in queried_when(n2), d3 \in queried_when(n3) :
             \E verify_keys \in {decode(d1).verify_keys_stack},
                public_keys \in {decode(d1).public_keys_stack},
                read_public \in {read_public_messages(decode(d2)).msgs},
                read_private \in {read_private_messages(decode(d3), local_storage.user_id,
                                                        local_storage.private_key)} :
             \E public_messages \in
                   {[i \in 1..Len(read_public) |->
                        LET message == read_public[i]
                        IN MessageState(message.content, message.sender_id, None,
                                        message.extra_event_info.user_name,
                                        message.extra_event_info.user_image,
                                        local_storage.user_id = message.sender_id,
                                        message.event_type = PUBLIC_IMAGE,
                                        message.timestamp)]},
                backend_private_messages \in
                   {[i \in 1..Len(read_private.msgs) |->
                        from_message_format(read_private.msgs[i], local_storage.user_id)]},
                own_private_messages \in
                   {[i \in 1..Len(local_storage.own_private_messages) |->
                        from_dict(local_storage.own_private_messages[i])]} :
             \E sorted_private_messages \in
                   {sorted_by_timestamp(backend_private_messages \o own_private_messages)} :
             \E merged \in {append_new(append_new(messages, public_messages, 1),
                                       sorted_private_messages, 1)} :
                IF read_private.err # ""
                THEN /\ check' = [check EXCEPT ![task] = Check("dead", 0)]
                     /\ UNCHANGED <<messages, local_storage, hist>>
                ELSE /\ messages' = merged
                     /\ hist' = merge_history(merged, Len(messages),
                                              Len(public_messages)
                                                + Len(sorted_private_messages))
                     /\ local_storage' =
                           [local_storage EXCEPT
                              !.verify_keys_storage = merged_keys(@, verify_keys),
                              !.public_keys_storage = merged_keys(@, public_keys)]
                     /\ check' = [check EXCEPT ![task] = Check("on", Len(store))]
    /\ UNCHANGED <<backend_vars, trial>>

\* A read of check_messages raises InvalidResponseError: the task ends.
check_messages_fails(task) ==
    /\ check[task].at = "on"
    /\ check' = [check EXCEPT ![task] = Check("dead", 0)]
    /\ UNCHANGED <<messages, local_storage, hist>>
    /\ UNCHANGED <<backend_vars, trial>>

NextClient ==
    \/ first_load
    \/ send_public_text
    \/ \E receiver_id \in Users : send_private_text(receiver_id)
    \/ thread_run
    \/ remote_send
    \/ backend_run
    \/ \E task \in DOMAIN check : check_messages(task)
    \/ \E task \in DOMAIN check : check_messages_fails(task)

SpecClient == Init /\ [][NextClient]_vars

(***************************************************************************)
(* SpecReload: one ChatState session, alone at the store, in a browser     *)
(* that loads the page again, in the same session or in a new one over the *)
(* same LocalStorage.                                                      *)
(***************************************************************************)
\* The session ends and a new one begins: messages is constructed anew and no
\* check_messages task of the new state runs; the rx.LocalStorage fields are the
\* browser's and stay.
new_session ==
    /\ check # NoCheck
    /\ pc["c1"] = "idle"
    /\ messages' = <<>>
    /\ check' = NoCheck
    /\ hist' = [hist EXCEPT !.merged = FALSE]
    /\ UNCHANGED <<backend_vars, local_storage, trial>>

NextReload ==
    \/ startup_event
    \/ new_session
    \/ send_public_text
    \/ \E receiver_id \in Users : send_private_text(receiver_id)
    \/ thread_run
    \/ backend_run
    \/ \E task \in DOMAIN check : check_messages(task)
    \/ \E task \in DOMAIN check : check_messages_fails(task)

SpecReload == Init /\ [][NextReload]_vars

(***************************************************************************)
(* SpecSessions: the session and the remote party of SpecClient, the page  *)
(* loaded once in a session, and new sessions over the same LocalStorage.  *)
(***************************************************************************)
NextSessions ==
    \/ first_load
    \/ new_session
    \/ \E receiver_id \in Users : send_private_text(receiver_id)
    \/ thread_run
    \/ remote_send
    \/ backend_run
    \/ \E task \in DOMAIN check : check_messages(task)

SpecSessions == Init /\ [][NextSessions]_vars

(***************************************************************************)
(* SpecLive: a session that only polls, and the remote party, with the     *)
(* fairness the code gives: a backend call under way runs to its end, and  *)
(* the while True loop of a check_messages task that has not ended with an *)
(* exception makes its next round.                                         *)
(***************************************************************************)
NextLive ==
    \/ first_load
    \/ remote_send
    \/ backend_run
    \/ \E task \in DOMAIN check : check_messages(task)
    \/ \E task \in DOMAIN check : check_messages_fails(task)

SpecLive ==
    /\ Init
    /\ [][NextLive]_vars
    /\ \A c \in Clients : WF_vars(backend_runs(c))
    /\ WF_vars(check # NoCheck /\ check_messages(1))

(***************************************************************************)
(* SpecDatabase: backend/database.py called directly, on a host where      *)
(* other people's images match the search tag too.                         *)
(***************************************************************************)
\* An image another user of the host uploaded under a name that matches the tag:
\* pixels that do not start with the marker ("unmarked"), or content that PIL cannot
\* open ("broken").  extract_timestamp reads 0.0 from a name without a timestamp.
ForeignAsset(utc_timestamp, image) ==
    [ts |-> utc_timestamp, data |-> <<>>, base |-> <<>>, seen |-> 0, image |-> image]

\* sorted(image_links, key=Database.extract_timestamp, reverse=True): a stable sort,
\* links of equal timestamp stay in the order of the listing.
RECURSIVE sorted_image_links(_)
sorted_image_links(image_links) ==
    IF image_links = <<>>
    THEN <<>>
    ELSE LET front == sorted_image_links(SubSeq(image_links, 1, Len(image_links) - 1))
             last == image_links[Len(image_links)]
             k == Cardinality({i \in 1..Len(front) : front[i].ts >= last.ts})
         IN SubSeq(front, 1, k) \o <<last>> \o SubSeq(front, k + 1, Len(front))

\* The loop of query_data over the sorted links from the i-th on; requests counts the
\* HTTP requests made.  Image.open raises UnidentifiedImageError on content that is
\* not an image, and nothing in query_data catches it.
RECURSIVE query_data_loop(_, _, _)
query_data_loop(links, i, requests) ==
    IF i > Len(links)
    THEN [err |-> "", data |-> <<>>, requests |-> requests]
    ELSE IF links[i].image = "broken"
         THEN [err |-> "UnidentifiedImageError", data |-> <<>>, requests |-> requests + 1]
         ELSE IF links[i].image = "marked"
              THEN [err |-> "", data |-> links[i].data, requests |-> requests + 1]
              ELSE query_data_loop(links, i + 1, requests + 1)

\* Database.query_data on the listing the host answers with (status_code and links).
query_data_of(status_code, image_links) ==
    IF status_code # 200
    THEN [err |-> "InvalidResponseError", data |-> <<>>, requests |-> 1]
    ELSE query_data_loop(sorted_image_links(image_links), 1, 1)

\* The orders in which the host may list the assets.
Listings(assets) ==
    {[i \in 1..Len(assets) |-> assets[p[i]]] :
       p \in {q \in [1..Len(assets) -> 1..Len(assets)] :
                \A i, j \in 1..Len(assets) : q[i] = q[j] => i = j}}

\* What the host answers with.
StatusCodes == {200, 500}

\* len(image_bytes) > 20 * 1024 * 1024
SizeLimit == 20 * 1024 * 1024

\* The size test failing at the limit already.
exceeds_limit_at(length) == length >= SizeLimit

\* "if len(image_bytes) > 20 * 1024 * 1024: raise ValueError"
exceeds_limit(length) == length > SizeLimit

\* upload_data posting whatever the upload page answered.
upload_data_of_posting(length, config_response, post_response) ==
    IF exceeds_limit(length)
    THEN [err |-> "ValueError", requests |-> <<>>]
    ELSE IF post_response # 200
         THEN [err |-> "InvalidResponseError", requests |-> <<"GET /upload", "POST /json">>]
         ELSE [err |-> "", requests |-> <<"GET /upload", "POST /json">>]

\* Database.upload_data: base64_to_image, then upload_image.  length is the size of
\* the PNG file, config_response what the upload page answers with ("token" when it
\* is 200 and carries the auth token), post_response the status of the upload.
upload_data_of(length, config_response, post_response) ==
    IF exceeds_limit(length)
    THEN [err |-> "ValueError", requests |-> <<>>]
    ELSE IF config_response # "token"
         THEN [err |-> "InvalidResponseError", requests |-> <<"GET /upload">>]
         ELSE IF post_response # 200
              THEN [err |-> "InvalidResponseError", requests |-> <<"GET /upload", "POST /json">>]
              ELSE [err |-> "", requests |-> <<"GET /upload", "POST /json">>]

\* The strings uploaded directly.
DirectData ==
    {<<>>, encode(EmptyStack),
     encode(UploadStack(EmptyDict, DictSet(EmptyDict, "u1", "vk1"), EmptyDict, <<>>))}

\* Timestamps in the names of other people's images.
ForeignStamps == 0..2

foreign_upload ==
    /\ Len(store) < MaxAssets
    /\ \E utc_timestamp \in ForeignStamps, image \in {"unmarked", "broken"} :
          store' = Append(store, ForeignAsset(utc_timestamp, image))
    /\ UNCHANGED <<clock, pc, op, queried_data, queried_at, ret, session_vars, trial>>

upload_data_call ==
    /\ Len(store) < MaxAssets
    /\ \E data \in DirectData, length \in (SizeLimit - 1)..(SizeLimit + 1),
          config_response \in {"token", "no token", "500"}, post_response \in StatusCodes :
          LET r == upload_data_of(length, config_response, post_response)
          IN /\ trial' = [fn |-> "upload_data", data |-> data, length |-> length,
                          config_response |-> config_response,
                          post_response |-> post_response,
                          err |-> r.err, requests |-> r.requests]
             /\ IF r.err = ""
                THEN \E utc_timestamp \in (clock["c1"] + 1)..(clock["c1"] + MaxJump) :
                        /\ clock' = [clock EXCEPT !["c1"] = utc_timestamp]
                        /\ store' = Append(store, Asset(utc_timestamp, data, <<>>, Len(store)))
                ELSE UNCHANGED <<store, clock>>
    /\ UNCHANGED <<pc, op, queried_data, queried_at, ret, session_vars>>

query_data_call ==
    /\ \E status_code \in StatusCodes, image_links \in Listings(store) :
          LET r == query_data_of(status_code, image_links)
          IN trial' = [fn |-> "query_data", status_code |-> status_code,
                       image_links |-> image_links, err |-> r.err, data |-> r.data,
                       requests |-> r.requests]
    /\ UNCHANGED <<backend_vars, session_vars>>

NextDatabase ==
    \/ foreign_upload
    \/ upload_data_call
    \/ query_data_call

SpecDatabase == Init /\ [][NextDatabase]_vars

(***************************************************************************)
(* SpecPixel: the bytes of a payload through Database.base64_to_image and   *)
(* back through the pixel decoding of Database.query_data.  A byte is a    *)
(* number in 0..255, a str the sequence of its code points.                *)
(***************************************************************************)
SeqsUpTo(S, n) == UNION {[1..k -> S] : k \in 0..n}

\* FILE_SEARCH_TERM.encode(): "WittyWisteriasV7"
Marker == <<87, 105, 116, 116, 121, 87, 105, 115, 116, 101, 114, 105, 97, 115, 86, 55>>

\* random.randbytes(8)
NoiseLen == 8

\* math.ceil(math.sqrt(n))
CeilSqrt(n) == CHOOSE w \in 0..n : w * w >= n /\ (w = 0 \/ (w - 1) * (w - 1) < n)

\* a / b rounded down.
CeilDiv_floor(a, b) == a \div b

\* math.ceil(a / b)
CeilDiv(a, b) == (a + b - 1) \div b

\* Database.base64_to_image with the noise that random.randbytes returned: the RGB
\* image whose pixel bytes are header + data padded with zeros.  PNG is lossless, so
\* the image file stands for these pixels.
base64_to_image(data, noise) ==
    LET validation_data == Marker \o noise \o data
        total_pixels == CeilDiv(Len(validation_data), 3)
        width == CeilSqrt(total_pixels)
        height == CeilDiv(total_pixels, width)
        padded_data == validation_data
                         \o [i \in 1..(width * height * 3 - Len(validation_data)) |-> 0]
    IN [width |-> width, height |-> height, pixels |-> padded_data]

\* bytes.rstrip(b"\x00")
RECURSIVE rstrip(_)
rstrip(bytes) ==
    IF bytes # <<>> /\ bytes[Len(bytes)] = 0
    THEN rstrip(SubSeq(bytes, 1, Len(bytes) - 1))
    ELSE bytes

\* bytes.decode("utf-8", errors="ignore") from the i-th byte on, for bytes that are
\* ASCII, lead bytes of two-byte sequences, continuation bytes, or never valid: a byte
\* that does not continue a valid sequence is left out.
RECURSIVE decode_utf8_ignore(_, _)
decode_utf8_ignore(bytes, i) ==
    IF i > Len(bytes)
    THEN <<>>
    ELSE IF bytes[i] < 128
         THEN <<bytes[i]>> \o decode_utf8_ignore(bytes, i + 1)
         ELSE IF /\ bytes[i] \in 194..223
                 /\ i < Len(bytes)
                 /\ bytes[i + 1] \in 128..191
              THEN <<(bytes[i] - 192) * 64 + (bytes[i + 1] - 128)>>
                     \o decode_utf8_ignore(bytes, i + 2)
              ELSE decode_utf8_ignore(bytes, i + 1)

\* str.encode("utf-8") for code points below 2048.
RECURSIVE encode_utf8(_)
encode_utf8(string) ==
    IF string = <<>>
    THEN <<>>
    ELSE (IF string[1] < 128
          THEN <<string[1]>>
          ELSE <<192 + (string[1] \div 64), 128 + (string[1] % 64)>>)
           \o encode_utf8(Tail(string))

\* The pixel decoding of query_data: "matched" is whether the pixels start with the
\* marker, no_padding_data the bytes left, decoded_data the str returned.
pixel_decode(image) ==
    LET pixel_byte_data == image.pixels
        matched == /\ Len(pixel_byte_data) >= Len(Marker)
                   /\ SubSeq(pixel_byte_data, 1, Len(Marker)) = Marker
        no_header_data == SubSeq(pixel_byte_data, Len(Marker) + NoiseLen + 1,
                                 Len(pixel_byte_data))
        no_padding_data == rstrip(no_header_data)
    IN IF matched
       THEN [matched |-> TRUE, no_padding_data |-> no_padding_data,
             decoded_data |-> decode_utf8_ignore(no_padding_data, 1)]
       ELSE [matched |-> FALSE, no_padding_data |-> <<>>, decoded_data |-> <<>>]

\* Byte values tried: NUL, "A", the two bytes of "\u00e9", and 0xFF.
PixelBytes == {0, 65, 195, 169, 255}
NoiseBytes == {0, 255}

\* Longest payload tried.
MaxBytes == 2

InitPixel ==
    /\ Constructed
    /\ trial \in {[fn |-> "bytes", data |-> data, noise |-> noise] :
                    data \in SeqsUpTo(PixelBytes, MaxBytes),
                    noise \in [1..NoiseLen -> NoiseBytes]}

base64_to_image_call ==
    /\ trial.fn = "bytes"
    /\ trial' = [fn |-> "base64_to_image", data |-> trial.data, noise |-> trial.noise,
                 image |-> base64_to_image(trial.data, trial.noise)]
    /\ UNCHANGED <<backend_vars, session_vars>>

pixel_decode_call ==
    /\ trial.fn = "base64_to_image"
    /\ trial' = [fn |-> "pixel_decode", data |-> trial.data, noise |-> trial.noise,
                 image |-> trial.image, out |-> pixel_decode(trial.image)]
    /\ UNCHANGED <<backend_vars, session_vars>>

NextPixel ==
    \/ base64_to_image_call
    \/ pixel_decode_call

SpecPixel == InitPixel /\ [][NextPixel]_vars

(***************************************************************************)
(* SpecRaster: Database.base64_to_image on data of every length up to      *)
(* MaxData, for the size of the image it makes.                            *)
(***************************************************************************)
\* Longest data tried.
MaxData == 120

InitRaster ==
    /\ Constructed
    /\ trial \in {[fn |-> "length", length |-> n] : n \in 0..MaxData}

\* Database.base64_to_image(data) with len(data) = trial.length
raster_call ==
    /\ trial.fn = "length"
    /\ LET data == [i \in 1..trial.length |-> 65]
           noise == [i \in 1..NoiseLen |-> 255]
       IN trial' = [fn |-> "raster", validation_data |-> Marker \o noise \o data,
                    image |-> base64_to_image(data, noise)]
    /\ UNCHANGED <<backend_vars, session_vars>>

NextRaster == raster_call

SpecRaster == InitRaster /\ [][NextRaster]_vars

(***************************************************************************)
(* SpecCrypto: backend/cryptography.py called directly: a message signed   *)
(* and verified, or sealed and opened, with any of the keys.               *)
(***************************************************************************)
CryptoMessages == {Plain(""), Plain("hi"), Plain("hello"), Plain("bye")}

InitCrypto ==
    /\ Constructed
    /\ trial \in {[fn |-> "to sign", message |-> m, signing_key |-> sk, verify_key |-> vk] :
                    m \in CryptoMessages, sk \in SigningKeys, vk \in VerifyKeys}
                 \cup {[fn |-> "to seal", message |-> m, sender_private_key |-> a,
                        recipient_private_key |-> b, opening_key |-> k] :
                         m \in CryptoMessages, a \in PrivateKeys, b \in PrivateKeys,
                         k \in PrivateKeys}

sign_message_call ==
    /\ trial.fn = "to sign"
    /\ trial' = [trial EXCEPT !.fn = "sign_message"]
                  @@ [signed_message |-> sign_message(trial.message, trial.signing_key)]
    /\ UNCHANGED <<backend_vars, session_vars>>

verify_message_call ==
    /\ trial.fn = "sign_message"
    /\ trial.signed_message.ok
    /\ trial' = [trial EXCEPT !.fn = "verify_message"]
                  @@ [out |-> verify_message(trial.signed_message.val, trial.verify_key)]
    /\ UNCHANGED <<backend_vars, session_vars>>

\* The sender seals to the public key of the recipient.
encrypt_message_call ==
    /\ trial.fn = "to seal"
    /\ trial' = [trial EXCEPT !.fn = "encrypt_message"]
                  @@ [encrypted_message |->
                         encrypt_message(trial.message, trial.sender_private_key,
                                         PublicKeyOf(trial.recipient_private_key))]
    /\ UNCHANGED <<backend_vars, session_vars>>

\* The box is opened with opening_key and the public key of the sender.
decrypt_message_call ==
    /\ trial.fn = "encrypt_message"
    /\ trial.encrypted_message.ok
    /\ trial' = [trial EXCEPT !.fn = "decrypt_message"]
                  @@ [out |-> decrypt_message(trial.encrypted_message.val, trial.opening_key,
                                              PublicKeyOf(trial.sender_private_key))]
    /\ UNCHANGED <<backend_vars, session_vars>>

NextCrypto ==
    \/ sign_message_call
    \/ verify_message_call
    \/ encrypt_message_call
    \/ decrypt_message_call

SpecCrypto == InitCrypto /\ [][NextCrypto]_vars

(***************************************************************************)
(* SpecCodec: Backend.encode and Backend.decode called directly, on stacks  *)
(* of any MessageFormat and on stored strings other programs wrote.        *)
(***************************************************************************)
\* Entries of a stored message_stack that MessageFormat.to_json did not write: a
\* string that is not JSON, and a JSON value that is not a string.
NotJson == [malformed |-> "not json"]
NotStr == [malformed |-> "not a string"]

\* The JSON of a message without its header field sender_id.
NoSenderId(m) ==
    [header |-> [f \in DOMAIN to_json(m).header \ {"sender_id"} |-> to_json(m).header[f]],
     body |-> to_json(m).body]

\* The JSON of a message whose event_type names no member of EventType.
UnknownEventType(m) == [to_json(m) EXCEPT !.header.event_type = "PUBLIC_VIDEO"]

\* MessageFormat.from_json on an entry: json.loads raises JSONDecodeError,
\* obj["header"]["sender_id"] and EventType[...] raise KeyError.
from_json_of(entry) ==
    IF "malformed" \in DOMAIN entry
    THEN [err |-> "JSONDecodeError", message |-> NoMessage]
    ELSE IF \/ "sender_id" \notin DOMAIN entry.header
            \/ entry.header.event_type \notin EventType
         THEN [err |-> "KeyError", message |-> NoMessage]
         ELSE [err |-> "", message |-> from_json(entry)]

\* The list comprehension of UploadStack.from_json from the i-th entry on: only an
\* entry that is not a string is left out.
RECURSIVE message_stack_from_json(_, _, _)
message_stack_from_json(entries, i, parsed) ==
    IF i > Len(entries)
    THEN [err |-> "", message_stack |-> parsed]
    ELSE IF entries[i] = NotStr
         THEN message_stack_from_json(entries, i + 1, parsed)
         ELSE LET r == from_json_of(entries[i])
              IN IF r.err # ""
                 THEN [err |-> r.err, message_stack |-> <<>>]
                 ELSE message_stack_from_json(entries, i + 1, Append(parsed, r.message))

\* Backend.decode on any stored string.
decode_of(encoded_stack) ==
    IF encoded_stack = <<>>
    THEN [err |-> "", stack |-> EmptyStack]
    ELSE LET json_data == encoded_stack[1]
             r == message_stack_from_json(json_data.message_stack, 1, <<>>)
         IN IF r.err # ""
            THEN [err |-> r.err, stack |-> EmptyStack]
            ELSE [err |-> "",
                  stack |-> UploadStack(json_data.profile_image_stack,
                                        json_data.verify_keys_stack,
                                        json_data.public_keys_stack, r.message_stack)]

\* Backend.encode on a stack object whose message_stack may hold strings: the list
\* is replaced, in the object, by the JSON of its MessageFormat entries, and the
\* object is then serialised.  blob: the encoded string; left: the object after.
encode_of(upload_stack) ==
    LET IsMessageFormat(entry) == "sender_id" \in DOMAIN entry
        kept == SelectSeq(upload_stack.message_stack, IsMessageFormat)
        left == [upload_stack EXCEPT !.message_stack = [i \in DOMAIN kept |-> to_json(kept[i])]]
    IN [blob |-> <<[profile_image_stack |-> left.profile_image_stack,
                    verify_keys_stack |-> left.verify_keys_stack,
                    public_keys_stack |-> left.public_keys_stack,
                    message_stack |-> left.message_stack]>>,
        left |-> left]

\* Messages of a stack to encode: the records the backend appends, and a
\* MessageFormat that names its sender.
CodecMessages ==
    {public_message([PublicBase EXCEPT !.sender_username = ""],
                    sign_message(Plain("hi"), "sk1").val),
     private_message(PrivateBase, encrypt_message(Plain("hi"), "priv1", "pub2").val),
     [MessageFormat("u2", PUBLIC_IMAGE, Plain("hi"), 2) EXCEPT !.sender_username = "name"]}

\* Entries of a stored string to decode.
StoredEntries ==
    {to_json(m) : m \in CodecMessages}
    \cup {NotJson, NotStr, NoSenderId(PublicBase), UnknownEventType(PublicBase)}

\* Longest message log tried.
MaxLog == 2

CodecKeys == {EmptyDict, DictSet(EmptyDict, "u1", "vk1")}

CodecStacks ==
    {UploadStack(EmptyDict, v, EmptyDict, log) :
       v \in CodecKeys, log \in SeqsUpTo(CodecMessages, MaxLog)}

StoredStrings ==
    {<<>>}
    \cup {<<[profile_image_stack |-> EmptyDict, verify_keys_stack |-> v,
             public_keys_stack |-> EmptyDict, message_stack |-> entries]>> :
            v \in CodecKeys, entries \in SeqsUpTo(StoredEntries, MaxLog)}

InitCodec ==
    /\ Constructed
    /\ trial \in {[fn |-> "stack", upload_stack |-> x] : x \in CodecStacks}
                 \cup {[fn |-> "string", encoded_stack |-> x] : x \in StoredStrings}

\* Backend.decode(Backend.encode(upload_stack))
encode_decode_call ==
    /\ trial.fn = "stack"
    /\ trial' = [fn |-> "encode", upload_stack |-> trial.upload_stack,
                 encoded_stack |-> encode(trial.upload_stack),
                 decoded |-> decode(encode(trial.upload_stack))]
    /\ UNCHANGED <<backend_vars, session_vars>>

\* Backend.encode(upload_stack) called twice on one object
encode_twice_call ==
    /\ trial.fn = "stack"
    /\ LET first == encode_of(trial.upload_stack)
           second == encode_of(first.left)
       IN trial' = [fn |-> "encode_twice", upload_stack |-> trial.upload_stack,
                    first |-> first.blob, after |-> first.left, second |-> second.blob]
    /\ UNCHANGED <<backend_vars, session_vars>>

\* Backend.decode(encoded_stack)
decode_call ==
    /\ trial.fn = "string"
    /\ trial' = [fn |-> "decode", encoded_stack |-> trial.encoded_stack,
                 err |-> decode_of(trial.encoded_stack).err,
                 decoded |-> decode_of(trial.encoded_stack).stack]
    /\ UNCHANGED <<backend_vars, session_vars>>

NextCodec ==
    \/ encode_decode_call
    \/ encode_twice_call
    \/ decode_call

SpecCodec == InitCodec /\ [][NextCodec]_vars

(***************************************************************************)
(* Properties of overlapping write calls, under Spec.                      *)
(***************************************************************************)
Log(data) == decode(data).message_stack
LastMessage(asset) == Log(asset.data)[Len(Log(asset.data))]
\* The asset was published by a send: its log is the fetched log and one message.
IsSend(asset) ==
    /\ Log(asset.data) # <<>>
    /\ Log(asset.data) = Append(Log(asset.base), LastMessage(asset))

\* The two assets that landed last are two sends that fetched the same state S, both
\* before either landed, and appended different messages.
Overlapped ==
    LET n == Len(store)
    IN /\ n >= 2
       /\ store[n - 1].base = store[n].base
       /\ store[n - 1].seen <= n - 2
       /\ store[n].seen <= n - 2
       /\ IsSend(store[n - 1])
       /\ IsSend(store[n])
       /\ LastMessage(store[n - 1]) # LastMessage(store[n])

\* C1 as stated: after two sends that both fetched S before either published, the
\* state a fetch returns has S's log and, beyond it, only the message of the publish
\* that landed last.
C1_LastLandedWins ==
    Overlapped =>
        LET b == store[Len(store)]
        IN \A d \in query_data(store) : Log(d) = Append(Log(b.base), LastMessage(b))

\* C1 amended: after two sends that both fetched S before either published, and whose
\* file names carry a timestamp later than every earlier asset's, the state a fetch
\* returns is that of the publish with the later file-name timestamp (of either, when
\* the two timestamps are equal), whichever landed last: its log is S's log and that
\* writer's message only.
C1_NewestStampWins ==
    LET n == Len(store)
    IN (/\ Overlapped
        /\ \E i \in {n - 1, n} : \A k \in 1..(n - 2) : store[k].ts < store[i].ts)
       => \A d \in query_data(store) :
             \E i \in {n - 1, n} :
                /\ \A j \in {n - 1, n} : store[j].ts <= store[i].ts
                /\ Log(d) = Append(Log(store[i].base), LastMessage(store[i]))

\* The publish that landed first carries the later timestamp and is what a fetch returns.
C1_Witness ==
    LET n == Len(store)
    IN /\ Overlapped
       /\ store[n - 1].ts > store[n].ts
       /\ query_data(store) = {store[n - 1].data}

\* The user and key a request would register.
RequestVerifyKey(request) ==
    CASE request.kind = "push_public_keys" -> <<request.user_id, request.verify_key>>
      [] request.kind = "send_public_message" ->
            <<request.message.sender_id, request.message.verify_key>>
      [] OTHER -> <<"", "">>
RequestPublicKey(request) ==
    CASE request.kind = "push_public_keys" -> <<request.user_id, request.public_key>>
      [] request.kind = "send_private_message" ->
            <<request.message.sender_id, request.message.own_public_key>>
      [] OTHER -> <<"", "">>

\* stack holds a key for the user of carried, and not the carried one.
Differs(stack, carried) ==
    carried[1] \in DOMAIN stack /\ stack[carried[1]] # carried[2]
\* later holds for the user of carried the key stack holds.
Keeps(stack, later, carried) ==
    carried[1] \in DOMAIN later /\ later[carried[1]] = stack[carried[1]]

\* C4 as stated: once a stored state holds a verify key or a public key for a user
\* id, a call begun later that carries a different key for that user id publishes a
\* state that holds the stored key unchanged.
C4_KeptInEveryLaterState ==
    [][\A c \in Clients :
          (pc[c] = "queried" /\ pc'[c] = "idle" /\ Len(store') = Len(store) + 1) =>
              \A i \in 1..queried_at[c] :
                 LET stored == decode(store[i].data)
                     published == decode(store'[Len(store')].data)
                 IN /\ Differs(stored.verify_keys_stack, RequestVerifyKey(op[c])) =>
                          Keeps(stored.verify_keys_stack, published.verify_keys_stack,
                                RequestVerifyKey(op[c]))
                    /\ Differs(stored.public_keys_stack, RequestPublicKey(op[c])) =>
                          Keeps(stored.public_keys_stack, published.public_keys_stack,
                                RequestPublicKey(op[c]))]_vars

\* C4 amended: every key of the state a write call fetched is unchanged in the state
\* that call publishes, whatever key its request carries, and a write call ends with
\* no error other than the store's.
C4_KeptFromFetchedState ==
    /\ \A i \in 1..Len(store) :
          LET fetched == decode(store[i].base)
              published == decode(store[i].data)
          IN /\ \A u \in DOMAIN fetched.verify_keys_stack :
                   Keeps(fetched.verify_keys_stack, published.verify_keys_stack, <<u, "">>)
             /\ \A u \in DOMAIN fetched.public_keys_stack :
                   Keeps(fetched.public_keys_stack, published.public_keys_stack, <<u, "">>)
    /\ ret.err \in {"", "InvalidResponseError"}

\* A send landed whose sender had, in the fetched state, a key other than the one of
\* the key pair the send used.
C4_Witness ==
    \E i \in 1..Len(store) :
       LET fetched == decode(store[i].base)
           m == LastMessage(store[i])
       IN /\ IsSend(store[i])
          /\ \/ /\ m.content.kind = "signed"
                /\ Differs(fetched.verify_keys_stack, <<m.sender_id, m.content.k1>>)
             \/ /\ m.content.kind = "box"
                /\ Differs(fetched.public_keys_stack, <<m.sender_id, m.content.k1>>)

\* C6: no published state holds a message record with a non-empty signing_key or
\* private_key, nor a signing or private key in either key map.
C6_NoSecretPersisted ==
    \A i \in 1..Len(store) :
       LET json_data == store[i].data[1]
       IN /\ \A k \in 1..Len(json_data.message_stack) :
                /\ json_data.message_stack[k].header.signing_key = ""
                /\ json_data.message_stack[k].header.private_key = ""
          /\ \A u \in DOMAIN json_data.verify_keys_stack :
                json_data.verify_keys_stack[u] \notin SigningKeys \cup PrivateKeys
          /\ \A u \in DOMAIN json_data.public_keys_stack :
                json_data.public_keys_stack[u] \notin SigningKeys \cup PrivateKeys

\* A published state holds a public and a private message and keys in both maps.
C6_Witness ==
    \E i \in 1..Len(store) :
       LET json_data == store[i].data[1]
       IN /\ \E k \in 1..Len(json_data.message_stack) :
                json_data.message_stack[k].header.event_type = PUBLIC_TEXT
          /\ \E k \in 1..Len(json_data.message_stack) :
                json_data.message_stack[k].header.event_type = PRIVATE_TEXT
          /\ DOMAIN json_data.verify_keys_stack # {}
          /\ DOMAIN json_data.public_keys_stack # {}

(***************************************************************************)
(* Properties of the single calls, under SpecApi.                          *)
(***************************************************************************)
\* The entries read_public_messages is to return from a fetched state.
VerifiedEntries(queried) ==
    LET verifies(m) ==
            /\ m.event_type \in {PUBLIC_TEXT, PUBLIC_IMAGE}
            /\ m.sender_id \in DOMAIN queried.verify_keys_stack
            /\ m.content.kind = "signed"
            /\ m.content.k1 = queried.verify_keys_stack[m.sender_id]
        kept == SelectSeq(queried.message_stack, verifies)
    IN [i \in 1..Len(kept) |-> [kept[i] EXCEPT !.content = Plain(kept[i].content.text)]]

\* The entries read_private_messages(user_id, private_key) is to return.
OpenedEntries(queried, user_id, private_key) ==
    LET opens(m) ==
            /\ m.event_type \in {PRIVATE_TEXT, PRIVATE_IMAGE}
            /\ m.receiver_id = user_id
            /\ m.sender_id \in DOMAIN queried.public_keys_stack
            /\ m.content.kind = "box"
            /\ {m.content.k1, m.content.k2}
                 = {PublicKeyOf(private_key), queried.public_keys_stack[m.sender_id]}
        kept == SelectSeq(queried.message_stack, opens)
    IN [i \in 1..Len(kept) |-> [kept[i] EXCEPT !.content = Plain(kept[i].content.text)]]

\* A read call got its fetch answered.
Fetched(name) == ret.op = name /\ ret.err # "InvalidResponseError"

\* C2: when the store holds one state, published from the empty store by a
\* send_public_message that signed with a valid signing key, read_public_messages
\* returns exactly that one message, with the plaintext the request carried.
C2_SentIsRead ==
    (/\ Fetched("read_public_messages")
     /\ Len(store) = 1
     /\ store[1].base = <<>>
     /\ IsSend(store[1])
     /\ LastMessage(store[1]).event_type \in {PUBLIC_TEXT, PUBLIC_IMAGE}
     /\ ret.fetched = decode(store[1].data))
    => /\ ret.err = ""
       /\ ret.msgs = <<[LastMessage(store[1]) EXCEPT !.content = PublicBase.content]>>

\* C5: read_public_messages and read_private_messages, once their fetch is answered,
\* never end with an error.
C5_ReadsNeverFail ==
    (Fetched("read_public_messages") \/ Fetched("read_private_messages")) => ret.err = ""

\* C9: read_public_messages returns, in log order and with the plaintext as content,
\* exactly the PUBLIC_TEXT and PUBLIC_IMAGE entries whose sender has a verify key in the
\* fetched state under which the content verifies.
C9_ReadPublicExact ==
    Fetched("read_public_messages") =>
        /\ ret.err = ""
        /\ ret.msgs = VerifiedEntries(ret.fetched)

\* read_public_messages returned two of three entries, in log order, and left out one
\* that does not verify under its sender's registered key.
C9_Witness ==
    /\ Fetched("read_public_messages")
    /\ Len(ret.fetched.message_stack) = 3
    /\ Len(ret.msgs) = 2
    /\ ret.msgs[1].event_type # ret.msgs[2].event_type
    /\ ret.fetched.message_stack[2].event_type \in {PUBLIC_TEXT, PUBLIC_IMAGE}
    /\ ret.fetched.message_stack[2].sender_id \in DOMAIN ret.fetched.verify_keys_stack
    /\ ret.msgs[1].content = Plain(ret.fetched.message_stack[1].content.text)
    /\ ret.msgs[2].content = Plain(ret.fetched.message_stack[3].content.text)

\* C10: read_private_messages(user_id, private_key) returns, in log order and with the
\* plaintext as content, exactly the PRIVATE_TEXT and PRIVATE_IMAGE entries addressed to
\* user_id whose sender has a public key in the fetched state and whose content opens
\* with private_key and that key.
C10_ReadPrivateExact ==
    Fetched("read_private_messages") =>
        /\ ret.err = ""
        /\ ret.msgs = OpenedEntries(ret.fetched, ret.user_id, ret.private_key)

\* A required field of the request is absent.
PublicIncomplete(message) ==
    \/ message.sender_id = ""
    \/ message.event_type = None
    \/ message.content = NoContent
    \/ message.signing_key = ""
PrivateIncomplete(message) ==
    \/ message.sender_id = ""
    \/ message.receiver_id = ""
    \/ message.event_type = None
    \/ message.content = NoContent
    \/ message.timestamp = 0
    \/ message.own_public_key = ""
    \/ message.receiver_public_key = ""
    \/ message.private_key = ""

\* C7: a send_public_message whose request lacks sender_id, event_type, content or
\* signing_key ends with InvalidDataError after no HTTP request, and the store is as
\* it was.
C7_IncompletePublicRejected ==
    [][(/\ ret' # ret
        /\ ret'.op = "send_public_message"
        /\ ret'.message # NoMessage
        /\ PublicIncomplete(ret'.message))
       => /\ ret'.err = "InvalidDataError"
          /\ ret'.calls = 0
          /\ store' = store]_vars

\* A send_public_message without signing_key was rejected while the store held a state.
C7_Witness ==
    /\ ret.op = "send_public_message"
    /\ ret.message = Without(PublicBase, "signing_key")
    /\ ret.err = "InvalidDataError"
    /\ store # <<>>

C3_NoDuplicate ==
    hist.fresh =>
        \A i, j \in 1..Len(messages) :
           (messages[i].user_id = messages[j].user_id
            /\ messages[i].timestamp = messages[j].timestamp) => i = j

\* A merge left out a fetched entry that was present, and messages holds an own
\* message and one of another user.
C3_Witness ==
    /\ hist.fresh
    /\ hist.skipped
    /\ \E i, j \in 1..Len(messages) : messages[i].own_message /\ ~messages[j].own_message

(***************************************************************************)
(* Properties of backend/database.py, under SpecDatabase.                  *)
(***************************************************************************)
\* The links of a listing that carry the marker, newest file name first.
OursNewestFirst(image_links) ==
    LET marked(a) == a.image = "marked"
    IN SelectSeq(sorted_image_links(image_links), marked)

\* C11: when the listing answers 200, query_data returns without error the payload
\* of the newest link that carries the marker, whatever other links are listed (and
\* the empty string when none carries it).
C11_SkipsNotOurs ==
    (trial.fn = "query_data" /\ trial.status_code = 200)
    => /\ trial.err = ""
       /\ trial.data = IF OursNewestFirst(trial.image_links) = <<>>
                       THEN <<>>
                       ELSE OursNewestFirst(trial.image_links)[1].data

\* C15: upload_data raises InvalidResponseError whenever the upload page or the
\* upload is answered without success; it posts at most once, and not at all when
\* the upload page gave no credentials.
C15_UploadFailsOnce ==
    (trial.fn = "upload_data" /\ trial.length <= SizeLimit)
    => LET posts == {i \in 1..Len(trial.requests) : trial.requests[i] = "POST /json"}
       IN /\ (trial.config_response # "token"
                 => trial.err = "InvalidResponseError" /\ posts = {})
          /\ (trial.config_response = "token" /\ trial.post_response # 200
                 => trial.err = "InvalidResponseError")
          /\ (trial.config_response = "token" /\ trial.post_response = 200
                 => trial.err = "")
          /\ Cardinality(posts) <= 1

\* An upload failed at the upload page, on a host that holds an asset of ours.
C15_Witness ==
    /\ trial.fn = "upload_data"
    /\ trial.config_response = "500"
    /\ trial.post_response = 200
    /\ trial.err = "InvalidResponseError"
    /\ \E i \in 1..Len(store) : store[i].image = "marked"

\* C16: an upload_data whose image is larger than 20 MiB raises ValueError without
\* any request and leaves the store as it was; an image of 20 MiB or less does not
\* raise ValueError.
C16_TooLargeAbandoned ==
    [][(trial' # trial /\ trial'.fn = "upload_data")
       => IF trial'.length > SizeLimit
          THEN /\ trial'.err = "ValueError"
               /\ trial'.requests = <<>>
               /\ store' = store
          ELSE trial'.err # "ValueError"]_vars

\* An image one byte over 20 MiB was refused, on a host that holds two assets of ours.
C16_Witness ==
    /\ trial.fn = "upload_data"
    /\ trial.length = SizeLimit + 1
    /\ trial.err = "ValueError"
    /\ Cardinality({i \in 1..Len(store) : store[i].image = "marked"}) = 2

(***************************************************************************)
(* Properties of the codec, under SpecCodec.                               *)
(***************************************************************************)
\* C12: decoding what encode made of a stack gives the stack back, in all four
\* collections.
C12_DecodeEncode ==
    trial.fn = "encode" => trial.decoded = trial.upload_stack

\* An entry MessageFormat.to_json could have written.
WellFormed(entry) ==
    /\ "malformed" \notin DOMAIN entry
    /\ "sender_id" \in DOMAIN entry.header
    /\ entry.header.event_type \in EventType

\* C14: decoding a stored string does not fail; it returns the key maps and the
\* well-formed entries of the message log in their order, leaving out the others.
C14_MalformedDropped ==
    (trial.fn = "decode" /\ trial.encoded_stack # <<>>)
    => LET json_data == trial.encoded_stack[1]
           kept == SelectSeq(json_data.message_stack, WellFormed)
       IN /\ trial.err = ""
          /\ trial.decoded.verify_keys_stack = json_data.verify_keys_stack
          /\ trial.decoded.message_stack = [i \in 1..Len(kept) |-> from_json(kept[i])]

(***************************************************************************)
(* Properties of the pixel codec, under SpecPixel.                         *)
(***************************************************************************)
\* C13: for data that does not end in a zero byte, whatever the noise, the pixel
\* decoding of the image of data matches the marker and returns exactly data.
C13_PixelRoundTrip ==
    (/\ trial.fn = "pixel_decode"
     /\ (trial.data = <<>> \/ trial.data[Len(trial.data)] # 0))
    => /\ trial.out.matched
       /\ encode_utf8(trial.out.decoded_data) = trial.data

(***************************************************************************)
(* Properties of backend/cryptography.py, under SpecCrypto.                *)
(***************************************************************************)
\* C17: verifying what sign_message made of a message returns the message under the
\* verify key of the signing pair, and raises ValueError, returning nothing, under
\* the verify key of another pair.
C17_VerifySign ==
    trial.fn = "verify_message"
    => IF trial.verify_key = VerifyKeyOf(trial.signing_key)
       THEN trial.out.ok /\ trial.out.val = trial.message
       ELSE ~trial.out.ok /\ trial.out.err = "ValueError" /\ trial.out.val = NoContent

\* A signed "hi" was verified under the verify key of the other pair.
C17_Witness ==
    /\ trial.fn = "verify_message"
    /\ trial.message = Plain("hi")
    /\ trial.verify_key # VerifyKeyOf(trial.signing_key)
    /\ ~trial.out.ok

\* C18: opening what encrypt_message sealed from a to b with b's private key and a's
\* public key returns the message; with another private key it raises CryptoError
\* and returns nothing.
C18_OpenSeal ==
    trial.fn = "decrypt_message"
    => IF trial.opening_key = trial.recipient_private_key
       THEN trial.out.ok /\ trial.out.val = trial.message
       ELSE ~trial.out.ok /\ trial.out.err = "CryptoError" /\ trial.out.val = NoContent

\* A box sealed between two identities was opened with the sender's private key in
\* place of the recipient's.
C18_Witness ==
    /\ trial.fn = "decrypt_message"
    /\ trial.message = Plain("hi")
    /\ trial.sender_private_key # trial.recipient_private_key
    /\ trial.opening_key = trial.sender_private_key
    /\ ~trial.out.ok

(***************************************************************************)
(* Properties of what a write call publishes, under Spec.                  *)
(***************************************************************************)
\* Caller c publishes in this step.
Publishes(c) ==
    /\ pc[c] = "queried"
    /\ pc'[c] = "idle"
    /\ Len(store') = Len(store) + 1

Published == store'[Len(store')]

IsPrefix(s, t) == Len(s) <= Len(t) /\ SubSeq(t, 1, Len(s)) = s

\* A send that publishes stores the log it fetched with one entry more, at the end.
AppendsOne ==
    \A c \in Clients :
       (Publishes(c) /\ op[c].kind \in {"send_public_message", "send_private_message"})
       => /\ Len(Log(Published.data)) = Len(Log(queried_data[c])) + 1
          /\ IsPrefix(Log(queried_data[c]), Log(Published.data))

\* No write cycle overlapped another: each asset was published by a call that fetched
\* when all the assets before it, and no other, had landed.
Sequential == \A i \in 1..Len(store) : store[i].seen = i - 1

\* Every asset's file name carries a later timestamp than the assets before it.
StampsIncrease == \A i \in 2..Len(store) : store[i - 1].ts < store[i].ts

Prefixes == \A i \in 2..Len(store) : IsPrefix(Log(store[i - 1].data), Log(store[i].data))

\* C19 as stated: every send that publishes stores the fetched log with one entry
\* appended at the end, and in a run without overlapping write cycles each stored log
\* is a prefix of the next.
C19_PrefixWithoutOverlap ==
    [][AppendsOne]_vars /\ [](Sequential => Prefixes)

\* C19 amended: every send that publishes stores the fetched log with one entry
\* appended at the end, and in a run without overlapping write cycles in which every
\* file name carries a later timestamp than the ones before, each stored log is a
\* prefix of the next.
C19_PrefixWithLaterStamps ==
    [][AppendsOne]_vars /\ []((Sequential /\ StampsIncrease) => Prefixes)

\* Three sends, public and private, one after the other with later and later file
\* names: the logs hold one, two and three entries.
C19_Witness ==
    /\ Len(store) = 3
    /\ Sequential
    /\ StampsIncrease
    /\ \A i \in 1..3 : Len(Log(store[i].data)) = i
    /\ \E i, j \in 1..3 : /\ Log(store[3].data)[i].event_type = PUBLIC_TEXT
                           /\ Log(store[3].data)[j].event_type = PRIVATE_TEXT

\* The map new is the map old, with at most an entry for user_id added.
AtMostAdds(old, new, user_id) ==
    /\ \A u \in DOMAIN old : u \in DOMAIN new /\ new[u] = old[u]
    /\ DOMAIN new \subseteq DOMAIN old \cup {user_id}

\* What a publishing call leaves as it fetched it.
FrameKept ==
    \A c \in Clients :
       Publishes(c)
       => LET old == decode(queried_data[c])
              new == decode(Published.data)
          IN CASE op[c].kind = "push_public_keys" ->
                    /\ new.message_stack = old.message_stack
                    /\ new.profile_image_stack = old.profile_image_stack
                    /\ AtMostAdds(old.verify_keys_stack, new.verify_keys_stack,
                                  op[c].user_id)
                    /\ AtMostAdds(old.public_keys_stack, new.public_keys_stack,
                                  op[c].user_id)
               [] op[c].kind = "send_public_message" ->
                    new.public_keys_stack = old.public_keys_stack
               [] op[c].kind = "send_private_message" ->
                    new.verify_keys_stack = old.verify_keys_stack
               [] OTHER -> TRUE

\* C20: push_public_keys publishes the message log and the profile images it fetched
\* and key maps that differ from the fetched ones at most by a new entry for its
\* user_id; send_public_message publishes the public-key map it fetched and
\* send_private_message the verify-key map it fetched.
C20_FrameOfWrites == [][FrameKept]_vars

\* A push_public_keys was published on a state that held a message and added the
\* keys of its user; a private send was published on a state that held verify keys.
C20_Witness ==
    /\ \E i \in 1..Len(store) :
          /\ Log(store[i].base) # <<>>
          /\ Log(store[i].data) = Log(store[i].base)
          /\ DOMAIN decode(store[i].data).verify_keys_stack
               # DOMAIN decode(store[i].base).verify_keys_stack
          /\ DOMAIN decode(store[i].data).public_keys_stack
               # DOMAIN decode(store[i].base).public_keys_stack
    /\ \E i \in 1..Len(store) :
          /\ IsSend(store[i])
          /\ LastMessage(store[i]).event_type = PRIVATE_TEXT
          /\ decode(store[i].base).verify_keys_stack # EmptyDict

(***************************************************************************)
(* Properties of the page loaded again, under SpecReload.                  *)
(***************************************************************************)
\* The check_messages tasks of the session that run.
Running == {task \in DOMAIN check : check[task].at = "on"}

\* C21: at most one check_messages task of a session runs at any time: none is
\* started while one runs, so no two rounds of the session overlap.
C21_OneLoop == Cardinality(Running) <= 1

(***************************************************************************)
(* Properties of the merges of check_messages, under SpecSessions.         *)
(***************************************************************************)
\* The entries a step appended to messages, and the step of a merge that appended
\* some: no handler started or ended a backend call in it.
Added == SubSeq(messages', Len(messages) + 1, Len(messages'))
Merged == pc' = pc /\ Len(messages') > Len(messages)

\* p is f with some entries left out.
RECURSIVE IsSubsequence(_, _)
IsSubsequence(p, f) ==
    IF p = <<>>
    THEN TRUE
    ELSE IF f = <<>>
         THEN FALSE
         ELSE IF Head(p) = Head(f)
              THEN IsSubsequence(Tail(p), Tail(f))
              ELSE IsSubsequence(p, Tail(f))

\* C22: the private entries one merge appends are in non-decreasing order of their
\* timestamps, and the public entries it appends are in the order in which
\* read_public_messages returned them from the log of some asset, whatever their
\* timestamps.
C22_MergeOrder ==
    [][Merged =>
         LET IsPrivate(m) == m.receiver_id # None
             IsPublic(m) == m.receiver_id = None
             private == SelectSeq(Added, IsPrivate)
             public == SelectSeq(Added, IsPublic)
         IN /\ \A i, j \in DOMAIN private :
                  i < j => private[i].timestamp <= private[j].timestamp
            /\ \E n \in 0..Len(store) : \E d \in queried_when(n) :
                  LET read == read_public_messages(decode(d)).msgs
                  IN IsSubsequence(
                         [i \in DOMAIN public |-> <<public[i].user_id, public[i].timestamp>>],
                         [i \in DOMAIN read |-> <<read[i].sender_id, read[i].timestamp>>])]_vars

\* One merge has appended private entries of different timestamps, and one has
\* appended a public entry after a public entry of a later timestamp.
C22_Witness == hist.batch /\ hist.unsorted

\* A send handler of a private message has run: its backend call is started.
SendsPrivate ==
    /\ pc["c1"] = "idle"
    /\ pc'["c1"] = "started"
    /\ op'["c1"].kind = "send_private_message"

\* The entries of messages that are the private message an entry of
\* own_private_messages records.
Recorded(data) ==
    {i \in DOMAIN messages :
       /\ messages[i].user_id = from_dict(data).user_id
       /\ messages[i].timestamp = from_dict(data).timestamp
       /\ messages[i].receiver_id = from_dict(data).receiver_id
       /\ messages[i].message = from_dict(data).message}

\* The other entries of messages with its user id and timestamp.
Colliding(data) ==
    {i \in DOMAIN messages \ Recorded(data) :
       /\ messages[i].user_id = from_dict(data).user_id
       /\ messages[i].timestamp = from_dict(data).timestamp}

\* A private send appends its message to messages and its dict to the record.
RecordedAtSend ==
    SendsPrivate =>
       /\ Len(messages') = Len(messages) + 1
       /\ local_storage'.own_private_messages =
              Append(local_storage.own_private_messages,
                     to_dict(messages'[Len(messages')]))

\* C23: every private send is recorded in own_private_messages when it is made, and
\* once a merge of check_messages has ended, every entry of the record is in
\* messages exactly once.
C23_OwnPrivateRestored ==
    /\ [][RecordedAtSend]_vars
    /\ [](hist.merged =>
            \A k \in DOMAIN local_storage.own_private_messages :
               Cardinality(Recorded(local_storage.own_private_messages[k])) = 1)

\* C23, amended: ... every entry of the record is in messages exactly once, or not
\* at all when another entry of messages carries its user id and timestamp.
C23_OwnPrivateRestoredUnlessTaken ==
    /\ [][RecordedAtSend]_vars
    /\ [](hist.merged =>
            \A k \in DOMAIN local_storage.own_private_messages :
               LET data == local_storage.own_private_messages[k]
               IN \/ Cardinality(Recorded(data)) = 1
                  \/ Recorded(data) = {} /\ Colliding(data) # {})

\* A merge has put back both entries of the record of a session that began with
\* an empty list, next to a private message of the remote party.
C23_Witness ==
    /\ hist.merged
    /\ hist.batch
    /\ Len(local_storage.own_private_messages) = 2
    /\ \A k \in DOMAIN local_storage.own_private_messages :
          Cardinality(Recorded(local_storage.own_private_messages[k])) = 1
    /\ \E i \in DOMAIN messages : ~messages[i].own_message /\ messages[i].receiver_id # None

(***************************************************************************)
(* Properties of a failed fetch, under SpecApi.                            *)
(***************************************************************************)
WriteCalls == {"push_public_keys", "send_public_message", "send_private_message"}

\* The caller's write call takes its first step: it comes to hold what it fetched,
\* or it ends with an outcome.
Fetches ==
    /\ pc["c1"] = "idle"
    /\ \/ pc'["c1"] = "queried"
       \/ ret' # ret /\ ret'.op \in WriteCalls

\* C24: a write call passes its fetch only with a payload query_data returned from
\* the store; when the fetch fails, the call ends there, the caller gets the
\* error and the store is as it was.
C24_FailedFetchPublishesNothing ==
    [][Fetches =>
         \/ /\ pc'["c1"] = "queried"
            /\ queried_data'["c1"] \in query_data(store)
            /\ ret' = ret
         \/ /\ pc'["c1"] = "idle"
            /\ ret'.err \in {"InvalidResponseError", "InvalidDataError"}
            /\ (ret'.err = "InvalidResponseError" => ret'.calls = 1)
            /\ store' = store]_vars

\* A send of a public message has failed at its fetch while the store holds
\* assets: the one request it made was the listing.
C24_Witness ==
    /\ store # <<>>
    /\ pc["c1"] = "idle"
    /\ ret.op = "send_public_message"
    /\ ret.err = "InvalidResponseError"
    /\ ret.calls = 1

(***************************************************************************)
(* Properties of startup_event run again, under SpecSessions.              *)
(***************************************************************************)
\* startup_event runs: one more check_messages task is started.
Loads == Len(check') = Len(check) + 1

\* C25: startup_event on a client whose LocalStorage holds a user id and both secret
\* keys leaves the three as they are, whatever the merges of check_messages have
\* written to the key storages.
C25_IdentityKept ==
    [][(/\ Loads
        /\ local_storage.user_id # ""
        /\ local_storage.signing_key # ""
        /\ local_storage.private_key # "")
       => /\ local_storage'.user_id = local_storage.user_id
          /\ local_storage'.signing_key = local_storage.signing_key
          /\ local_storage'.private_key = local_storage.private_key]_vars

\* startup_event has run in a session that has not merged yet, its push_public_keys
\* is under way, and the key storage holds what only a merge of an earlier session
\* can have written: the remote party's key under the client's own user id.
C25_Witness ==
    /\ Locked
    /\ ~hist.merged
    /\ local_storage.user_id = "u1"
    /\ local_storage.signing_key = "sk1"
    /\ local_storage.private_key = "priv1"
    /\ local_storage.verify_keys_storage["u1"] = "vk2"

(***************************************************************************)
(* Properties of the image size, under SpecRaster.                         *)
(***************************************************************************)
\* C26: for validation data of L bytes, with n the least number of pixels that
\* hold L bytes, the width is the least w with w * w >= n and the height the least
\* h with w * h >= n; the image holds all L bytes unchanged, the pixels past n are
\* fewer than one row, and the zero bytes added are fewer than one row plus two.
C26_RasterHoldsAll ==
    trial.fn = "raster" =>
       LET L == Len(trial.validation_data)
           n == CHOOSE k \in 1..L : 3 * k >= L /\ 3 * (k - 1) < L
           width == trial.image.width
           height == trial.image.height
           pixels == trial.image.pixels
       IN /\ width * width >= n /\ (width - 1) * (width - 1) < n
          /\ width * height >= n /\ width * (height - 1) < n
          /\ Len(pixels) = width * height * 3
          /\ SubSeq(pixels, 1, L) = trial.validation_data
          /\ \A i \in (L + 1)..Len(pixels) : pixels[i] = 0
          /\ width * height - n < width
          /\ Len(pixels) - L < 3 * width + 2

\* An image with pixels past those the data needs: 26 bytes of data make 50 bytes
\* with the header, 17 pixels, and an image of 5 by 4.
C26_Witness ==
    /\ trial.fn = "raster"
    /\ Len(trial.validation_data) = 50
    /\ trial.image.width = 5
    /\ trial.image.height = 4
    /\ Len(trial.image.pixels) = 60

(***************************************************************************)
(* Properties of Backend.encode called twice, under SpecCodec.             *)
(***************************************************************************)
\* C27: Backend.encode leaves the stack object it is given as it was, and a second
\* call on the same object returns the same string, with the whole message log.
C27_EncodeKeepsArgument ==
    trial.fn = "encode_twice" =>
       /\ trial.after = trial.upload_stack
       /\ trial.second = trial.first
       /\ Len(trial.second[1].message_stack) = Len(trial.upload_stack.message_stack)

(***************************************************************************)
(* Properties of what a merge leaves alone, under SpecClient.              *)
(***************************************************************************)
\* A step of check_messages: no backend call starts or ends in it, and no task is
\* started.
Polls == pc' = pc /\ check # NoCheck /\ Len(check') = Len(check)

\* C28: a step of check_messages leaves every entry of messages where and as it
\* was, and only appends; so an entry stays when the message has gone from the
\* store.
C28_MergeOnlyAppends ==
    [][Polls => /\ Len(messages) <= Len(messages')
                /\ SubSeq(messages', 1, Len(messages)) = messages]_vars

\* messages holds a message of the remote party, fetched in an earlier round, that
\* the log of the asset a fetch now returns no longer has, and an entry after it.
C28_Witness ==
    \E i \in DOMAIN messages :
       /\ ~messages[i].own_message
       /\ i < Len(messages)
       /\ hist.merged
       /\ store # <<>>
       /\ \A d \in query_data(store) :
             \A k \in DOMAIN Log(d) :
                \/ Log(d)[k].sender_id # messages[i].user_id
                \/ Log(d)[k].timestamp # messages[i].timestamp

(***************************************************************************)
(* Properties of the read calls, under SpecApi.                            *)
(***************************************************************************)
\* The caller makes a read call: no write call is under way before or after, and
\* the outcome is not one of a write call.
Reads ==
    /\ pc["c1"] = "idle"
    /\ pc'["c1"] = "idle"
    /\ ret'.op \notin WriteCalls

\* C29: read_public_keys, read_public_messages and read_private_messages leave the
\* store as it is; the only requests a read that returns makes are those of
\* query_data.
C29_ReadsPublishNothing ==
    [][Reads => /\ store' = store
                /\ (ret'.err = "" => ret'.calls = QueryCalls(store))]_vars

\* read_public_messages has returned a message whose content it replaced, in its
\* copy of the fetched stack, by the verified text.
C29_Witness ==
    /\ store # <<>>
    /\ ret.op = "read_public_messages"
    /\ ret.err = ""
    /\ \E i \in DOMAIN ret.msgs : \E k \in DOMAIN ret.fetched.message_stack :
          /\ ret.msgs[i].content = Plain("hi")
          /\ ret.fetched.message_stack[k].timestamp = ret.msgs[i].timestamp
          /\ ret.fetched.message_stack[k].sender_id = ret.msgs[i].sender_id
          /\ ret.fetched.message_stack[k].content # Plain("hi")

(***************************************************************************)
(* Properties of delivery, under SpecLive.                                 *)
(***************************************************************************)
\* Whatever a fetch returns holds a public message of this sender and timestamp
\* that the sender's key in the same stack verifies.
Stored(sender_id, timestamp) ==
    /\ store # <<>>
    /\ \A d \in query_data(store) :
          \E k \in DOMAIN Log(d) :
             /\ Log(d)[k].sender_id = sender_id
             /\ Log(d)[k].timestamp = timestamp
             /\ Log(d)[k].event_type \in {PUBLIC_TEXT, PUBLIC_IMAGE}
             /\ sender_id \in DOMAIN decode(d).verify_keys_stack
             /\ verify_message(Log(d)[k].content, decode(d).verify_keys_stack[sender_id]).ok

\* The check_messages task of the session runs.
Alive == check # NoCheck /\ check[1].at = "on"

\* messages holds the public message, or any entry, of this sender and timestamp.
Listed(sender_id, timestamp) ==
    \E i \in DOMAIN messages :
       /\ messages[i].user_id = sender_id
       /\ messages[i].timestamp = timestamp
       /\ messages[i].receiver_id = None

Taken(sender_id, timestamp) ==
    \E i \in DOMAIN messages :
       messages[i].user_id = sender_id /\ messages[i].timestamp = timestamp

\* C30: from any time on, if every fetch keeps returning a public message with its
\* sender's matching key and the check_messages task keeps running, messages comes
\* to hold that message.
C30_PublishedIsListed ==
    \A sender_id \in Users : \A timestamp \in 1..MaxTime :
       []<>(\/ ~Stored(sender_id, timestamp)
            \/ ~Alive
            \/ Listed(sender_id, timestamp))

\* C30, amended: ... messages comes to hold that message or another entry of its
\* sender id and timestamp.
C30_PublishedIsListedOrTaken ==
    \A sender_id \in Users : \A timestamp \in 1..MaxTime :
       []<>(\/ ~Stored(sender_id, timestamp)
            \/ ~Alive
            \/ Taken(sender_id, timestamp))

\* The remote party's public message is what every fetch returns, the task runs and
\* messages holds the message.
C30_Witness ==
    /\ Stored("u2", 1)
    /\ Alive
    /\ Listed("u2", 1)
    /\ Len(store) = MaxAssets

(***************************************************************************)
(* Properties of a failed read in the loop, under SpecClient.              *)
(***************************************************************************)
\* C31: a check_messages task that runs goes on running, whatever its reads do: no
\* step of the session, a round whose read fails included, ends it.
C31_FailedReadKeepsLoop ==
    [][\A task \in DOMAIN check : check[task].at = "on" => check'[task].at = "on"]_vars

(***************************************************************************)
(* Properties of the key storages in a round, under SpecClient.            *)
(***************************************************************************)
\* C32: a step of check_messages leaves every entry that verify_keys_storage and
\* public_keys_storage hold as it was, the session's own two among them, whatever
\* keys were read.
C32_MergeKeepsLocalKeys ==
    [][Polls =>
         /\ \A u \in DOMAIN local_storage.verify_keys_storage :
               local_storage'.verify_keys_storage[u] = local_storage.verify_keys_storage[u]
         /\ \A u \in DOMAIN local_storage.public_keys_storage :
               local_storage'.public_keys_storage[u] = local_storage.public_keys_storage[u]]_vars

(***************************************************************************)
(* Properties of a send whose backend call fails, under SpecClient.        *)
(***************************************************************************)
\* The step in which the backend call a send handler started ends with nothing
\* uploaded: InvalidDataError, or an InvalidResponseError of the query or of the
\* upload, or the ValueError of the size limit.
FailedSend ==
    /\ pc["c1"] \in {"started", "queried"}
    /\ op["c1"].kind \in {"send_public_message", "send_private_message"}
    /\ pc'["c1"] = "idle"
    /\ store' = store

\* The entries of messages that the handler of the call under way appended.
OwnCopies ==
    {i \in DOMAIN messages :
       /\ messages[i].own_message
       /\ messages[i].user_id = op["c1"].message.sender_id
       /\ messages[i].timestamp = op["c1"].message.timestamp
       /\ messages[i].message = op["c1"].message.content
       /\ messages[i].receiver_id = IF op["c1"].kind = "send_private_message"
                                    THEN op["c1"].message.receiver_id
                                    ELSE None}

\* The entries of own_private_messages that the handler of the call under way
\* appended.
OwnRecords ==
    {k \in DOMAIN local_storage.own_private_messages :
       /\ local_storage.own_private_messages[k].json_timestamp = op["c1"].message.timestamp
       /\ local_storage.own_private_messages[k].json_receiver_id = op["c1"].message.receiver_id}

\* C33: when the backend call of a send fails, the entry the handler appended to
\* messages, and for a private message the one it appended to own_private_messages,
\* are there and stay, and the step changes nothing of the session: the handler had
\* ended when it started the thread.
C33_FailedSendKeepsCopy ==
    [][FailedSend =>
         /\ OwnCopies # {}
         /\ op["c1"].kind = "send_private_message" => OwnRecords # {}
         /\ UNCHANGED session_vars]_vars

\* No call is under way; messages and own_private_messages hold a private message
\* of the session, and messages a public one, that no asset of the store has.
C33_Witness ==
    /\ pc["c1"] = "idle"
    /\ \E i, j \in DOMAIN messages :
          /\ messages[i].own_message /\ messages[i].receiver_id = None
          /\ messages[j].own_message /\ messages[j].receiver_id # None
          /\ \E k \in DOMAIN local_storage.own_private_messages :
                local_storage.own_private_messages[k] = to_dict(messages[j])
          /\ \A a \in DOMAIN store : \A k \in DOMAIN Log(store[a].data) :
                \/ Log(store[a].data)[k].sender_id # local_storage.user_id
                \/ Log(store[a].data)[k].timestamp \notin {messages[i].timestamp,
                                                           messages[j].timestamp}

(***************************************************************************)
(* Properties of a fetch after a publish, under Spec.                      *)
(***************************************************************************)
\* What a fetch returns now, the listing being current, is the string of the asset
\* that landed last, and so it was for the fetch of every write call that published.
FetchesLastPublished ==
    /\ store # <<>> => query_data(store) = {store[Len(store)].data}
    /\ \A i \in 2..Len(store) : store[i].base = store[i - 1].data

\* C34: in a run without overlapping write cycles, a fetch that follows a publish
\* returns the string of the most recent publish, whoever published.
C34_ReadYourWrites == Sequential => FetchesLastPublished

\* C34 amended: ... in a run without overlapping write cycles in which every file
\* name carries a later timestamp than the ones before ...
C34_ReadYourWritesWithLaterStamps == (Sequential /\ StampsIncrease) => FetchesLastPublished

\* Three publishes one after the other with later and later file names, of messages
\* of two senders; a fetch returns the third.
C34_Witness ==
    /\ Len(store) = 3
    /\ Sequential
    /\ StampsIncrease
    /\ FetchesLastPublished
    /\ \E i, j \in DOMAIN Log(store[3].data) :
          Log(store[3].data)[i].sender_id # Log(store[3].data)[j].sender_id

====
